---- MODULE Spec2Model ----
(***************************************************************************)
(* A model of the per-process virtual memory space of the Maestro kernel   *)
(* (kernel/src/process/mem_space/mod.rs): gaps, mappings, transactions,    *)
(* the program break and the page-fault entry point.                       *)
(*                                                                         *)
(* Addresses are byte addresses and sizes are page counts, as in the       *)
(* source, so that a value of one unit used where the other is expected    *)
(* shows.  The address space is scaled down: the allocation window         *)
(* [ALLOC_BEGIN, COPY_BUFFER) holds WindowPages pages.  Arithmetic is that *)
(* of a build whose usize does not overflow on the values reached (a       *)
(* 64-bit build); the one subtraction that can go below zero is flagged    *)
(* and stops the model (set_brk, see SetBrkOp).                            *)
(***************************************************************************)
EXTENDS Integers, Sequences, FiniteSets, TLC

\* ------------------------------------------------------------------ bounds

\* Number of pages of the allocation window [ALLOC_BEGIN, COPY_BUFFER).
WindowPages == 3
\* Largest size, in pages, of a map or unmap request.
MaxSize == 2
\* An allocation failure is injected at the FailAt-th fallible step of a
\* transaction, for FailAt in 1..MaxFailAt (0: no failure).
MaxFailAt == 3
\* Number of operations applied to a memory space in one behaviour.
MaxOps == 3
\* Number of processes created in one behaviour, init included.
MaxProcs == 3
\* Largest order of the frame of a block of the allocator.
MaxOrder == 1

\* --------------------------------------------------------------- constants

PAGE_SIZE == 4096

PROT_READ == 1
PROT_WRITE == 2
PROT_EXEC == 4

MAP_PRIVATE == 2
MAP_ANONYMOUS == 32

\* Page-fault error code bits (arch::x86::paging).
PAGE_FAULT_WRITE == 2
PAGE_FAULT_INSTRUCTION == 16

\* memory::ALLOC_BEGIN and memory::PROCESS_END, scaled down.
ALLOC_BEGIN == 1 * PAGE_SIZE
PROCESS_END == ALLOC_BEGIN + (WindowPages + 1) * PAGE_SIZE
COPY_BUFFER == PROCESS_END - PAGE_SIZE

\* ----------------------------------------------------------------- helpers

Min(a, b) == IF a <= b THEN a ELSE b
Clamp(x, lo, hi) == IF x < lo THEN lo ELSE IF x > hi THEN hi ELSE x
DivCeil(a, b) == (a + b - 1) \div b
\* Whether bit `b` (a power of two) is set in `x`.
HasBit(x, b) == (x \div b) % 2 = 1

\* VirtAddr::is_aligned_to and VirtAddr::align_to (rounds up).
is_aligned_to(addr, align) == addr % align = 0
align_to(addr, align) == DivCeil(addr, align) * align

\* Removal of a key from a map, and insertion replacing an equal key.
MapRemove(f, k) == [x \in DOMAIN f \ {k} |-> f[x]]
MapInsert(f, k, v) == (k :> v) @@ f

EmptyMap == [x \in {} |-> 0]

SetMin(S) == CHOOSE x \in S : \A y \in S : x <= y
SetMax(S) == CHOOSE x \in S : \A y \in S : x >= y

\* --------------------------------------------------------------- MemGap

NoGap == [begin |-> -1, size |-> 0]
Gap(begin, size) == [begin |-> begin, size |-> size]
GapEnd(g) == g.begin + g.size * PAGE_SIZE
get_page_offset_for(g, addr) == (addr - g.begin) \div PAGE_SIZE

\* MemGap::consume(off, size): the residual gaps left and right of the
\* `size` pages taken at page offset `off` of the gap.
consume(g, off, size) ==
    [left  |-> IF off # 0 THEN Gap(g.begin, off) ELSE NoGap,
     right |-> IF g.size > off + size
               THEN Gap(g.begin + (off + size) * PAGE_SIZE, g.size - (off + size))
               ELSE NoGap]

\* MemGap::merge: `g` absorbs `o` when they are adjacent.
merge(g, o) ==
    IF g.begin = GapEnd(o) THEN Gap(o.begin, g.size + o.size)
    ELSE IF GapEnd(g) = o.begin THEN Gap(g.begin, g.size + o.size)
    ELSE g

\* ------------------------------------------------------------- MemMapping

NoMapping == [addr |-> -1, size |-> 0, prot |-> 0, flags |-> 0, pages |-> <<>>]
\* MemMapping::new: no page is populated.
NewMapping(addr, size, prot, flags) ==
    [addr |-> addr, size |-> size, prot |-> prot, flags |-> flags,
     pages |-> [i \in 1..size |-> FALSE]]
MappingEnd(m) == m.addr + m.size * PAGE_SIZE

\* The part of mapping `m` made of its pages off .. off+n-1 (0-based).
SubMapping(m, off, n) ==
    [addr |-> m.addr + off * PAGE_SIZE, size |-> n, prot |-> m.prot,
     flags |-> m.flags, pages |-> [i \in 1..n |-> m.pages[off + i]]]

\* MemMapping::split(off, pages): the residual mappings around the removed
\* slice and the gap that replaces the slice.
split(m, off, n) ==
    [prev |-> IF off > 0 THEN SubMapping(m, 0, off) ELSE NoMapping,
     gap  |-> IF n > 0 THEN Gap(m.addr + off * PAGE_SIZE, n) ELSE NoGap,
     next |-> IF off + n < m.size
              THEN SubMapping(m, off + n, m.size - (off + n)) ELSE NoMapping]

\* Page addresses of a mapping.
MappingPages(m) == {m.addr + i * PAGE_SIZE : i \in 0..(m.size - 1)}

\* ---------------------------------------------------------- MemSpaceState

\* cmp_get with range_cmp: an entry whose range contains `addr`.  When the
\* ranges of several entries contain `addr` the entry found depends on the
\* shape of the tree; `hi` selects the highest or the lowest key.
Containing(f, addr) ==
    {k \in DOMAIN f : k <= addr /\ addr < k + f[k].size * PAGE_SIZE}

get_gap_for_addr(gs, addr, hi) ==
    LET c == Containing(gs, addr)
    IN IF c = {} THEN NoGap ELSE gs[IF hi THEN SetMax(c) ELSE SetMin(c)]

get_mapping_for_addr(ms, addr, hi) ==
    LET c == Containing(ms, addr)
    IN IF c = {} THEN NoMapping ELSE ms[IF hi THEN SetMax(c) ELSE SetMin(c)]

\* MemSpaceState::get_gap: the first gap, in key order, of at least `size`.
get_gap(gs, size) ==
    LET c == {k \in DOMAIN gs : gs[k].size >= size}
    IN IF c = {} THEN NoGap ELSE gs[SetMin(c)]

\* ------------------------------------------------------ MemSpaceTransaction

\* A transaction works on the state in place and keeps what it needs to put
\* the state back; here the transaction carries its own copy of the state,
\* which replaces the state on commit and is dropped otherwise.  `n` counts
\* the fallible steps taken, `failed` tells that step number `failAt` failed.
Begin(s, failAt) ==
    [gaps |-> s.gaps, mappings |-> s.mappings, vmem_usage |-> s.vmem_usage,
     vmem |-> s.vmem, n |-> 0, failAt |-> failAt, failed |-> FALSE]

\* One fallible (allocating) step.
Alloc(t) ==
    IF t.failed THEN t
    ELSE IF t.n + 1 = t.failAt THEN [t EXCEPT !.failed = TRUE, !.n = @ + 1]
    ELSE [t EXCEPT !.n = @ + 1]

insert_gap(t, g) ==
    LET u == Alloc(t)
    IN IF u.failed THEN u ELSE [u EXCEPT !.gaps = MapInsert(@, g.begin, g)]

remove_gap(t, begin) ==
    IF t.failed \/ begin \notin DOMAIN t.gaps THEN t
    ELSE LET u == Alloc(t)
         IN IF u.failed THEN u ELSE [u EXCEPT !.gaps = MapRemove(@, begin)]

insert_mapping(t, m) ==
    LET u == Alloc(t)
    IN IF u.failed THEN u
       ELSE [u EXCEPT !.mappings = MapInsert(@, m.addr, m),
                      !.vmem_usage = @ + m.size]

remove_mapping(t, addr) ==
    IF t.failed \/ addr \notin DOMAIN t.mappings THEN t
    ELSE LET u == Alloc(t)
             m == t.mappings[addr]
         IN IF u.failed THEN u
            ELSE [u EXCEPT !.mappings = MapRemove(@, addr),
                           !.vmem_usage = @ - m.size,
                           !.vmem = @ \ MappingPages(m)]

InsertGapOpt(t, g) == IF g = NoGap THEN t ELSE insert_gap(t, g)
InsertMappingOpt(t, m) == IF m = NoMapping THEN t ELSE insert_mapping(t, m)

\* commit: the state the transaction leaves.
Commit(s, t) ==
    [s EXCEPT !.gaps = t.gaps, !.mappings = t.mappings,
              !.vmem_usage = t.vmem_usage, !.vmem = t.vmem]

\* What the transaction has changed so far: 2 when it has changed the
\* mappings, 1 when it has changed only the gaps, 0 when nothing.
Staged(s, t) ==
    IF t.mappings # s.mappings THEN 2 ELSE IF t.gaps # s.gaps THEN 1 ELSE 0

\* ---------------------------------------------------------- MapConstraint

Fixed(addr) == [kind |-> "Fixed", addr |-> addr]
Hint(addr) == [kind |-> "Hint", addr |-> addr]
NoConstraint == [kind |-> "None", addr |-> 0]

is_valid(c) ==
    CASE c.kind = "Fixed" -> c.addr < COPY_BUFFER /\ is_aligned_to(c.addr, PAGE_SIZE)
      [] c.kind = "Hint" -> is_aligned_to(c.addr, PAGE_SIZE)
      [] OTHER -> TRUE

\* A gap replaced by what consume left of it: remove_gap, then insert_gap of
\* each residual gap (remove_gaps_in_range, map_impl).
ReplaceGap(t, gap, c) ==
    InsertGapOpt(InsertGapOpt(remove_gap(t, gap.begin), c.left), c.right)

\* -------------------------------------------------- remove_gaps_in_range

\* The body of the loop for one gap.  As in the source, the first argument
\* of consume is the clamped start ADDRESS `s`, and the second the number of
\* pages between the clamped ends.
RemoveRangeFromGap(t, gap, s, e) ==
    ReplaceGap(t, gap, consume(gap, s, (e - s) \div PAGE_SIZE))

\* The loop over the gaps collected (`gs` is the map they were collected
\* from, `keys` those still to visit, in key order).
RECURSIVE RemoveGapsLoop(_, _, _, _, _)
RemoveGapsLoop(t, gs, keys, start, end) ==
    IF keys = {} \/ t.failed THEN t
    ELSE RemoveGapsLoop(
             RemoveRangeFromGap(t, gs[SetMin(keys)],
                 Clamp(start, gs[SetMin(keys)].begin, GapEnd(gs[SetMin(keys)])),
                 Clamp(end, gs[SetMin(keys)].begin, GapEnd(gs[SetMin(keys)]))),
             gs, keys \ {SetMin(keys)}, start, end)

\* The keys of the gaps collected: from the gap containing `start` (or from
\* `start`) to the end of the range.
GapsInRange(gs, search_start, end) == {k \in DOMAIN gs : search_start <= k /\ k < end}

SearchStart(gs, start, found) == IF found # NoGap THEN found.begin ELSE start

RemoveCollected(t, keys, start, end) ==
    RemoveGapsLoop(IF keys = {} THEN t ELSE Alloc(t), t.gaps, keys, start, end)

remove_gaps_in_range(t, start, size, hi) ==
    IF t.failed THEN t
    ELSE RemoveCollected(t,
             GapsInRange(t.gaps,
                 SearchStart(t.gaps, start, get_gap_for_addr(t.gaps, start, hi)),
                 start + size * PAGE_SIZE),
             start, start + size * PAGE_SIZE)

\* ------------------------------------------------------------ unmap_impl

\* The gap of a removed slice: merged with the next gap, then inserted.
MergeNext(t, g, next_gap) ==
    IF next_gap # NoGap
    THEN insert_gap(remove_gap(t, next_gap.begin), merge(g, next_gap))
    ELSE insert_gap(t, g)

MergeNextLookup(t, g, hi) == MergeNext(t, g, get_gap_for_addr(t.gaps, GapEnd(g), hi))

\* Merged with the previous gap first.
MergePrev(t, gap, prev_gap, hi) ==
    MergeNextLookup(IF prev_gap # NoGap THEN remove_gap(t, prev_gap.begin) ELSE t,
                    IF prev_gap # NoGap THEN merge(gap, prev_gap) ELSE gap,
                    hi)

InsertMergedGap(t, gap, hi) ==
    MergePrev(t, gap,
              IF gap.begin # 0 THEN get_gap_for_addr(t.gaps, gap.begin - 1, hi) ELSE NoGap,
              hi)

\* The gap of the slice, unless `nogap`.
InsertSliceGap(t, gap, nogap, hi) ==
    IF nogap \/ gap = NoGap \/ t.failed THEN t ELSE InsertMergedGap(t, gap, hi)

\* The old mapping removed and the residual mappings inserted, then the gap.
ReplaceMapping(t, mapping, sp, nogap, hi) ==
    InsertSliceGap(
        InsertMappingOpt(
            InsertMappingOpt(remove_mapping(Alloc(t), mapping.addr), sp.prev),
            sp.next),
        sp.gap, nogap, hi)

RECURSIVE unmap_loop(_, _, _, _, _, _)

\* `pages` pages of `mapping` are unmapped from its page `inner_off`.
UnmapSlice(t, addr, size, nogap, i, hi, mapping, inner_off, pages) ==
    unmap_loop(ReplaceMapping(t, mapping, split(mapping, inner_off, pages), nogap, hi),
               addr, size, nogap, i + pages, hi)

InnerOff(page_addr, mapping) == (page_addr - mapping.addr) \div PAGE_SIZE

\* One turn of the loop, `mapping` being the mapping containing the page.
UnmapPage(t, addr, size, nogap, i, hi, mapping) ==
    IF mapping = NoMapping
    THEN unmap_loop(t, addr, size, nogap, i + 1, hi)
    ELSE UnmapSlice(t, addr, size, nogap, i, hi, mapping,
             InnerOff(addr + i * PAGE_SIZE, mapping),
             Min(size - i, mapping.size - InnerOff(addr + i * PAGE_SIZE, mapping)))

unmap_loop(t, addr, size, nogap, i, hi) ==
    IF t.failed \/ i >= size THEN t
    ELSE UnmapPage(t, addr, size, nogap, i, hi,
                   get_mapping_for_addr(t.mappings, addr + i * PAGE_SIZE, hi))

unmap_impl(t, addr, size, nogap, hi) == unmap_loop(t, addr, size, nogap, 0, hi)

\* -------------------------------------------------------------- map_impl

\* The gap and the page offset in it that the constraint selects, in the
\* state of transaction `t` (NoGap: none).
HintGap(gs, g, off, size) ==
    IF g # NoGap /\ off + size <= g.size
    THEN [gap |-> g, off |-> off]
    ELSE [gap |-> get_gap(gs, size), off |-> 0]

SelectGap(t, c, size, hi) ==
    CASE c.kind = "Fixed" -> [gap |-> Gap(c.addr, size), off |-> 0]
      [] c.kind = "Hint" ->
            HintGap(t.gaps, get_gap_for_addr(t.gaps, c.addr, hi),
                    get_page_offset_for(get_gap_for_addr(t.gaps, c.addr, hi), c.addr),
                    size)
      [] OTHER -> [gap |-> get_gap(t.gaps, size), off |-> 0]

\* Result of map_impl: the transaction, whether a mapping was made, and the
\* mapping.
MapImplRes(t, ok, m) == [t |-> t, ok |-> ok, m |-> m]

MapImplDone(t, m) == MapImplRes(t, ~t.failed, m)

\* The gap is split around the mapping and the mapping created.
MapInGap(t, sel, size, prot, flags) ==
    IF t.failed \/ sel.gap = NoGap THEN MapImplRes(t, FALSE, NoMapping)
    ELSE MapImplDone(
             Alloc(ReplaceGap(t, sel.gap, consume(sel.gap, sel.off, size))),
             NewMapping(sel.gap.begin + sel.off * PAGE_SIZE, size, prot, flags))

MapSelect(t, c, size, prot, flags, hi) ==
    MapInGap(t, SelectGap(t, c, size, hi), size, prot, flags)

\* What a Fixed constraint does first: unmap the range without creating
\* gaps, then remove the gaps of the range.
PrepareFixed(t, c, size, hi) ==
    IF c.kind = "Fixed"
    THEN remove_gaps_in_range(unmap_impl(t, c.addr, size, TRUE, hi), c.addr, size, hi)
    ELSE t

map_impl(t, c, size, prot, flags, hi) ==
    IF ~is_valid(c) THEN MapImplRes(t, FALSE, NoMapping)
    ELSE MapSelect(PrepareFixed(t, c, size, hi), c, size, prot, flags, hi)

\* ----------------------------------------------------------------- MemSpace

\* MemSpace::new: one gap covering the allocation window.
NewMemSpace ==
    [gaps |-> (ALLOC_BEGIN :> Gap(ALLOC_BEGIN, (COPY_BUFFER - ALLOC_BEGIN) \div PAGE_SIZE)),
     mappings |-> EmptyMap,
     vmem_usage |-> 0,
     vmem |-> {},
     brk_init |-> 0,
     brk |-> 0]

\* Result of an operation: success, returned address, resulting state,
\* whether an allocation failed, and what the failing transaction had
\* already changed (see Staged).
Res(ok, ret, st, oom, staged) ==
    [ok |-> ok, ret |-> ret, st |-> st, oom |-> oom, staged |-> staged]

\* Finish with the transaction's changes applied even though a step failed.
FinishKeepsStaged(s, t, ret) ==
    IF t.failed THEN Res(FALSE, 0, Commit(s, t), TRUE, Staged(s, t))
    ELSE Res(TRUE, ret, Commit(s, t), FALSE, 0)

\* The end of a transaction: committed unless a step failed.
Finish(s, t, ret) ==
    IF t.failed THEN Res(FALSE, 0, s, TRUE, Staged(s, t))
    ELSE Res(TRUE, ret, Commit(s, t), FALSE, 0)

\* The mapping made by map_impl is inserted and the transaction committed.
MapCommit(s, r) ==
    IF r.ok THEN Finish(s, insert_mapping(r.t, r.m), r.m.addr)
    ELSE Res(FALSE, 0, s, r.t.failed, Staged(s, r.t))

\* MemSpace::map.
Map(s, c, size, prot, flags, failAt, hi) ==
    MapCommit(s, map_impl(Begin(s, failAt), c, size, prot, flags, hi))

\* MemSpace::unmap.
Unmap(s, addr, size, brk, failAt, hi) ==
    IF ~is_aligned_to(addr, PAGE_SIZE) THEN Res(FALSE, 0, s, FALSE, 0)
    ELSE Finish(s, unmap_impl(Begin(s, failAt), addr, size, brk, hi), 0)

\* MemSpace::set_brk.  Result: `ok`, the resulting state, `underflow` when
\* `addr.0 - begin.0` is taken with addr below begin (the break is not
\* page-aligned and addr lies in the page of the break, above it), and
\* whether an allocation failed.
BrkRes(ok, st, underflow, oom) ==
    [ok |-> ok, st |-> st, underflow |-> underflow, oom |-> oom]

\* After the map or unmap of set_brk: the break moves on success.
BrkDone(s, addr, r) ==
    IF ~r.ok THEN BrkRes(FALSE, s, FALSE, r.oom)
    ELSE BrkRes(TRUE, [r.st EXCEPT !.brk = addr], FALSE, FALSE)

\* The branch `addr >= self.brk`, `begin` being the aligned break.
BrkGrowPages(s, addr, begin, pages, failAt, hi) ==
    IF pages = 0 THEN BrkRes(TRUE, s, FALSE, FALSE)
    ELSE BrkDone(s, addr,
                 Map(s, Fixed(begin), pages, PROT_READ + PROT_WRITE + PROT_EXEC,
                     MAP_ANONYMOUS, failAt, hi))

BrkGrow(s, addr, begin, failAt, hi) ==
    IF addr > COPY_BUFFER THEN BrkRes(FALSE, s, FALSE, FALSE)
    ELSE IF addr < begin THEN BrkRes(FALSE, s, TRUE, FALSE)
    ELSE BrkGrowPages(s, addr, begin, DivCeil(addr - begin, PAGE_SIZE), failAt, hi)

\* The branch `addr < self.brk`, `begin` being the aligned address.
BrkShrinkPages(s, addr, begin, pages, failAt, hi) ==
    IF pages = 0 THEN BrkRes(TRUE, s, FALSE, FALSE)
    ELSE BrkDone(s, addr, Unmap(s, begin, pages, TRUE, failAt, hi))

BrkShrink(s, addr, begin, failAt, hi) ==
    IF addr < s.brk_init THEN BrkRes(FALSE, s, FALSE, FALSE)
    ELSE BrkShrinkPages(s, addr, begin, DivCeil(begin - addr, PAGE_SIZE), failAt, hi)

set_brk(s, addr, failAt, hi) ==
    IF addr >= s.brk
    THEN BrkGrow(s, addr, align_to(s.brk, PAGE_SIZE), failAt, hi)
    ELSE BrkShrink(s, addr, align_to(addr, PAGE_SIZE), failAt, hi)

\* MemMapping::map(offset, vmem): gives the page a frame if it has none and
\* installs it in the page table.
PopulatePage(m, off) == [m EXCEPT !.pages[off + 1] = TRUE]

\* MemSpace::handle_page_fault.  Result: handled or not, the state, and
\* whether the allocation of the frame failed (the call returns the error).
FaultRes(handled, st, oom) == [handled |-> handled, st |-> st, oom |-> oom]

\* The state after `mapping` has given a frame to the page of `addr`.
FaultPopulate(s, addr, mapping) ==
    [s EXCEPT !.mappings[mapping.addr] = PopulatePage(mapping, InnerOff(addr, mapping)),
              !.vmem = @ \cup {mapping.addr + InnerOff(addr, mapping) * PAGE_SIZE}]

\* FaultOnMapping counting the populated page in vmem_usage.
FaultOnMappingCounting(s, addr, code, mapping, fail) ==
    IF mapping = NoMapping THEN FaultRes(FALSE, s, FALSE)
    ELSE IF HasBit(code, PAGE_FAULT_WRITE) /\ ~HasBit(mapping.prot, PROT_WRITE)
    THEN FaultRes(FALSE, s, FALSE)
    ELSE IF HasBit(code, PAGE_FAULT_INSTRUCTION) /\ ~HasBit(mapping.prot, PROT_EXEC)
    THEN FaultRes(FALSE, s, FALSE)
    ELSE IF fail THEN FaultRes(FALSE, s, TRUE)
    ELSE FaultRes(TRUE, [FaultPopulate(s, addr, mapping) EXCEPT !.vmem_usage = @ + 1],
                  FALSE)

\* FaultOnMapping without the check of instruction fetches.
FaultOnMappingNoExecCheck(s, addr, code, mapping, fail) ==
    IF mapping = NoMapping THEN FaultRes(FALSE, s, FALSE)
    ELSE IF HasBit(code, PAGE_FAULT_WRITE) /\ ~HasBit(mapping.prot, PROT_WRITE)
    THEN FaultRes(FALSE, s, FALSE)
    ELSE IF fail THEN FaultRes(FALSE, s, TRUE)
    ELSE FaultRes(TRUE, FaultPopulate(s, addr, mapping), FALSE)

\* The fault on `addr`, `mapping` being the mapping found for it and `fail`
\* whether MemMapping::map fails to allocate.
FaultOnMapping(s, addr, code, mapping, fail) ==
    IF mapping = NoMapping THEN FaultRes(FALSE, s, FALSE)
    ELSE IF HasBit(code, PAGE_FAULT_WRITE) /\ ~HasBit(mapping.prot, PROT_WRITE)
    THEN FaultRes(FALSE, s, FALSE)
    ELSE IF HasBit(code, PAGE_FAULT_INSTRUCTION) /\ ~HasBit(mapping.prot, PROT_EXEC)
    THEN FaultRes(FALSE, s, FALSE)
    ELSE IF fail THEN FaultRes(FALSE, s, TRUE)
    ELSE FaultRes(TRUE, FaultPopulate(s, addr, mapping), FALSE)

handle_page_fault(s, addr, code, hi, fail) ==
    FaultOnMapping(s, addr, code, get_mapping_for_addr(s.mappings, addr, hi), fail)

\* MemSpace::fork.  The pages of the mappings of `s`.
UserPages(s) == UNION {MappingPages(s.mappings[k]) : k \in DOMAIN s.mappings}

\* The loop of unmap_range over the mappings: the page table translates no
\* page of a mapping any more.
UnmapUserPages(s) == [s EXCEPT !.vmem = @ \ UserPages(s)]

\* Result of MemSpace::fork: success, the parent's space after the call and
\* the child's space (meaningful on success).
ForkRes(ok, parent, child) == [ok |-> ok, parent |-> parent, child |-> child]

\* MemSpace::fork giving the child the parent's page table.
ForkSharesPageTable(s, failAt) ==
    IF failAt = 1 THEN ForkRes(FALSE, s, s)
    ELSE IF failAt = 2 THEN ForkRes(FALSE, UnmapUserPages(s), s)
    ELSE ForkRes(TRUE, UnmapUserPages(s), s)

\* MemSpace::fork that leaves the parent's page table as it is.
ForkKeepsTranslations(s, failAt) ==
    IF failAt = 1 THEN ForkRes(FALSE, s, s)
    ELSE IF failAt = 2 THEN ForkRes(FALSE, s, s)
    ELSE ForkRes(TRUE, s, [s EXCEPT !.vmem = {}])

\* MemSpace::fork.  `failAt` = 1: the clone of the mappings fails (nothing
\* has been done); 2: the clone of the gaps fails (the parent's page table
\* has already been invalidated); 0: no failure.
fork(s, failAt) ==
    IF failAt = 1 THEN ForkRes(FALSE, s, s)
    ELSE IF failAt = 2 THEN ForkRes(FALSE, UnmapUserPages(s), s)
    ELSE ForkRes(TRUE, UnmapUserPages(s), [s EXCEPT !.vmem = {}])

\* ----------------------------------------------------------------- Process

\* The PID of the init process.
INIT_PID == 1

\* A process right after its creation: Running, vfork not done, no child,
\* no pending signal.  `parent` is 0 for None; `mem_space` and
\* `file_descriptors` tell whether the field is Some; `sigmask` whether
\* SIGCHLD is blocked, `sigpending` whether it is pending.
NewProcess(parent, mem_space, file_descriptors, sigmask) ==
    [state |-> "Running", vfork_done |-> FALSE, parent |-> parent, children |-> <<>>,
     mem_space |-> mem_space, file_descriptors |-> file_descriptors,
     sigmask |-> sigmask, sigpending |-> FALSE]

\* Result of an operation on the process table `ps` with the scheduler's
\* count of running processes `run`: both, and whether the kernel panicked.
PRes(ps, run, pan) == [procs |-> ps, running |-> run, panicked |-> pan]

\* Vec::insert(i, pid), `i` counted from 0.
InsertAt(children, i, pid) ==
    SubSeq(children, 1, i) \o <<pid>> \o SubSeq(children, i + 1, Len(children))

\* Process::add_child: the binary search gives the place of `pid` in the
\* sorted list, whether it is found there or not, and `pid` is inserted.
add_child(children, pid) ==
    InsertAt(children, Cardinality({i \in DOMAIN children : children[i] < pid}), pid)

\* Process::kill(SIGCHLD) on process `q`: a blocked signal is ignored.
kill(ps, q) == IF ps[q].sigmask THEN ps ELSE [ps EXCEPT ![q].sigpending = TRUE]

\* Process::set_state: the transitions the fetch_update accepts.
Valid(old_state, new_state) ==
    \/ old_state \in {"Running", "Sleeping"}
    \/ old_state = "Stopped" /\ new_state = "Running"

\* Process::set_state: the update of the number of running processes.
RunningAfter(run, old_state, new_state) ==
    IF old_state # "Running" /\ new_state = "Running" THEN run + 1
    ELSE IF old_state = "Running" THEN run - 1
    ELSE run

\* ReparentOne that leaves the child's parent as it is.
ReparentKeepsParent(ps, p, child_pid) ==
    IF child_pid = p \/ child_pid \notin DOMAIN ps THEN ps
    ELSE [ps EXCEPT ![INIT_PID].children = add_child(@, child_pid)]

\* Process::set_state, to Zombie: one child is attached to the init process.
ReparentOne(ps, p, child_pid) ==
    IF child_pid = p \/ child_pid \notin DOMAIN ps THEN ps
    ELSE [ps EXCEPT ![child_pid].parent = INIT_PID,
                    ![INIT_PID].children = add_child(@, child_pid)]

RECURSIVE ReparentAll(_, _, _)
ReparentAll(ps, p, children) ==
    IF children = <<>> THEN ps
    ELSE ReparentAll(ReparentOne(ps, p, Head(children)), p, Tail(children))

\* Process::set_state, to Zombie: the file descriptors table is dropped (the
\* memory space is kept), the children are taken and attached to init.
Zombify(ps, p) ==
    ReparentAll([ps EXCEPT ![p].file_descriptors = FALSE, ![p].children = <<>>],
                p, ps[p].children)

\* Process::set_state: SIGCHLD is sent to the parent.
SendSigchld(ps, p, new_state) ==
    IF new_state \in {"Running", "Stopped", "Zombie"} /\ ps[p].parent # 0
    THEN kill(ps, ps[p].parent)
    ELSE ps

\* Process::set_state.
set_state(ps, run, p, new_state) ==
    IF ~Valid(ps[p].state, new_state) THEN PRes(ps, run, FALSE)
    ELSE IF new_state = "Zombie" /\ p = INIT_PID
    THEN PRes([ps EXCEPT ![p].state = new_state],
              RunningAfter(run, ps[p].state, new_state), TRUE)
    ELSE IF new_state = "Zombie"
    THEN PRes(SendSigchld(Zombify([ps EXCEPT ![p].state = new_state], p), p, new_state),
              RunningAfter(run, ps[p].state, new_state), FALSE)
    ELSE PRes(SendSigchld([ps EXCEPT ![p].state = new_state], p, new_state),
              RunningAfter(run, ps[p].state, new_state), FALSE)

\* Process::wake.
wake(ps, p) ==
    IF ps[p].state = "Sleeping" THEN [ps EXCEPT ![p].state = "Running"] ELSE ps

\* vfork_wake that does not store vfork_done.
VforkWakeNoStore(ps, run, p) ==
    IF ps[p].parent = 0 THEN PRes(ps, run, FALSE)
    ELSE set_state(ps, run, ps[p].parent, "Running")

\* Process::vfork_wake.
vfork_wake(ps, run, p) ==
    IF ps[p].parent = 0 THEN PRes([ps EXCEPT ![p].vfork_done = TRUE], run, FALSE)
    ELSE set_state([ps EXCEPT ![p].vfork_done = TRUE], run, ps[p].parent, "Running")

\* Process::exit: vfork_wake after set_state(Zombie), whose result is `r`,
\* unless set_state has panicked.
ExitWake(r, p) == IF r.panicked THEN r ELSE vfork_wake(r.procs, r.running, p)
exit(ps, run, p) == ExitWake(set_state(ps, run, p, "Zombie"), p)

\* Process::fork by process `p`.  The unwrap of a missing memory space
\* panics.  The child gets the next PID, the parent's signal mask, a memory
\* space, and a file descriptors table if the parent has one; it is added
\* to the parent's children and to the scheduler, which counts it as
\* running.
ProcessFork(ps, run, p) ==
    IF ~ps[p].mem_space THEN PRes(ps, run, TRUE)
    ELSE PRes((Cardinality(DOMAIN ps) + 1
                   :> NewProcess(p, TRUE, ps[p].file_descriptors, ps[p].sigmask))
                  @@ [ps EXCEPT ![p].children = add_child(@, Cardinality(DOMAIN ps) + 1)],
              run + 1, FALSE)

\* ----------------------------------------------------------- process groups

\* The links of a process to its group: the leader (0 for None: the process
\* is its own leader), the sorted list of the processes of the group it
\* leads, and whether it has exited.
GroupLinks(group_leader) ==
    [group_leader |-> group_leader, process_group |-> <<>>, zombie |-> FALSE]

\* Vec::remove on the place found by the binary search, if any.
RemovePid(list, pid) == SelectSeq(list, LAMBDA x : x # pid)
\* Vec::insert on the place given by the binary search, if not found.
InsertPid(list, pid) ==
    IF \E i \in DOMAIN list : list[i] = pid THEN list ELSE add_child(list, pid)

\* Process::get_pgid.
get_pgid(ls, p) == IF ls[p].group_leader # 0 THEN ls[p].group_leader ELSE p

\* Process::set_pgid: the leader the process gets (0 for None).
NewLeader(p, pgid) == IF pgid # 0 /\ pgid # p THEN pgid ELSE 0
\* Process::set_pgid: the process leaves the list of its old leader.
LeaveGroup(ls, p) ==
    IF ls[p].group_leader = 0 THEN ls
    ELSE [ls EXCEPT ![ls[p].group_leader].process_group = RemovePid(@, p)]
\* Process::set_pgid: the process enters the list of its new leader.
EnterGroup(ls, p, leader) ==
    IF leader = 0 THEN [ls EXCEPT ![p].group_leader = 0]
    ELSE [ls EXCEPT ![p].group_leader = leader,
                    ![leader].process_group = InsertPid(@, p)]
\* Process::set_pgid; ESRCH, and nothing done, when the leader is unknown.
set_pgid(ls, p, pgid) ==
    IF NewLeader(p, pgid) # 0 /\ NewLeader(p, pgid) \notin DOMAIN ls THEN ls
    ELSE EnterGroup(LeaveGroup(ls, p), p, NewLeader(p, pgid))

\* Process::fork, for the links: the child gets the group leader of its
\* parent and default lists.
GroupFork(ls, p) ==
    (Cardinality(DOMAIN ls) + 1 :> GroupLinks(ls[p].group_leader)) @@ ls

\* The getpgid system call by process `caller`: the result, or ESRCH.
SysRes(ok, val) == [ok |-> ok, val |-> val]
getpgid(ls, caller, pid) ==
    IF pid = 0 THEN SysRes(TRUE, caller)
    ELSE IF pid \notin DOMAIN ls THEN SysRes(FALSE, 0)
    ELSE SysRes(TRUE, get_pgid(ls, pid))

\* ------------------------------------------------------------------- malloc

CHUNK_FLAG_USED == 1
FREE_CHUNK_MIN == 8
\* size_of::<Chunk>() and size_of::<Block>() on the 32 bits target: the two
\* pointers of the list, the flags and the size; the two pointers of the
\* list, the order and the first chunk.
CHUNK_HEADER == 16
BLOCK_HEADER == 28

\* A chunk: its flags and the size of its memory.  Of the flags only
\* CHUNK_FLAG_USED, the lowest bit, is ever set.
Chunk(flags, size) == [flags |-> flags, size |-> size]
\* Chunk::new_free.
new_free(size) == Chunk(0, size)
\* Chunk::is_used.
is_used(c) == c.flags % 2 # 0
\* flags | CHUNK_FLAG_USED and flags & CHUNK_FLAG_USED.
OrUsed(flags) == IF flags % 2 = 0 THEN flags + CHUNK_FLAG_USED ELSE flags
AndUsed(flags) == flags % 2

\* Chunk::can_split.
can_split(c, size) == c.size >= size + CHUNK_HEADER + FREE_CHUNK_MIN

\* Chunk::split, the header it writes in the memory of the chunk, after
\* `size` bytes: none when the chunk cannot be split.  The header is zeroed
\* and its list is linked to nothing.
SplitNext(c, size) ==
    IF can_split(c, size) THEN <<new_free(c.size - (size + CHUNK_HEADER))>> ELSE <<>>

\* Chunk::split on the `i`th chunk of the list `cs`: the list after it.  The
\* chunk is marked as used; its size and the links of the list are not
\* written.
chunk_split(cs, i, size) == [cs EXCEPT ![i].flags = OrUsed(@)]

\* LinkedList::unlink on the `i`th chunk of the list.
Unlink(cs, i) == SubSeq(cs, 1, i - 1) \o SubSeq(cs, i + 1, Len(cs))

\* Chunk::coalesce, its first part: the flags are and-ed with
\* CHUNK_FLAG_USED and the next chunk, if there is one and it is free, is
\* absorbed.
CoalesceNext(cs, i) ==
    IF i < Len(cs) /\ ~is_used(cs[i + 1])
    THEN Unlink([cs EXCEPT ![i].flags = AndUsed(@),
                           ![i].size = @ + CHUNK_HEADER + cs[i + 1].size], i + 1)
    ELSE [cs EXCEPT ![i].flags = AndUsed(@)]

\* Chunk::coalesce: then the previous chunk, if there is one and it is free,
\* is coalesced.
RECURSIVE coalesce(_, _)
coalesce(cs, i) ==
    IF i > 1 /\ ~is_used(CoalesceNext(cs, i)[i - 1])
    THEN coalesce(CoalesceNext(cs, i), i - 1)
    ELSE CoalesceNext(cs, i)

\* The result of Chunk::resize: what it returns and the list after it.
ResizeRes(ok, cs) == [ok |-> ok, cs |-> cs]

\* Chunk::resize towards more bytes: it needs a next chunk, free and large
\* enough; the next chunk is unlinked when what is left of it is too small.
Grow(cs, i, delta) ==
    IF i >= Len(cs) THEN ResizeRes(FALSE, cs)
    ELSE IF is_used(cs[i + 1]) THEN ResizeRes(FALSE, cs)
    ELSE IF CHUNK_HEADER + cs[i + 1].size < delta THEN ResizeRes(FALSE, cs)
    ELSE IF CHUNK_HEADER + cs[i + 1].size - delta >= CHUNK_HEADER + FREE_CHUNK_MIN
    THEN ResizeRes(TRUE, [cs EXCEPT ![i].size = @ + delta])
    ELSE ResizeRes(TRUE, Unlink([cs EXCEPT ![i].size = @ + delta], i + 1))

\* Chunk::resize.
resize(cs, i, delta) ==
    IF delta = 0 THEN ResizeRes(TRUE, cs)
    ELSE IF delta > 0 THEN Grow(cs, i, delta)
    ELSE IF cs[i].size <= -delta THEN ResizeRes(FALSE, cs)
    ELSE ResizeRes(TRUE, [cs EXCEPT ![i].size = @ + delta])

\* Block::new for a frame of the given order: one free chunk that fills the
\* frame (PAGE_SIZE << order bytes) after the header of the block.
BlockNew(order) == <<new_free(PAGE_SIZE * (2 ^ order) - BLOCK_HEADER)>>

\* malloc::alloc: None (<<>>), whatever is asked.
alloc(n) == <<>>

\* ---------------------------------------------------------------------- TTY

\* Process::is_in_orphan_process_group: the leader of the group, if the
\* process has one, is a zombie.
is_in_orphan_process_group(ls, p) ==
    ls[p].group_leader # 0 /\ ls[ls[p].group_leader].zombie

\* Process::kill_group: Process::kill on every process of the list
\* `process_group` of the process.  The result is the set of the processes
\* on which the signal becomes pending: kill drops a blocked signal.
kill_group(ls, sg, p, sig) ==
    {q \in DOMAIN ls : (\E i \in DOMAIN ls[p].process_group : ls[p].process_group[i] = q)
                           /\ sig \notin sg[q].sigmask}

\* The result of a check of the TTY device: Ok or EIO, and the processes on
\* which the signal has become pending.
TtyRes(res, killed) == [res |-> res, killed |-> killed]

\* TTYDeviceHandle::check_sigttin.
check_sigttin(ls, sg, t, p) ==
    IF get_pgid(ls, p) = t.pgrp THEN TtyRes("Ok", {})
    ELSE IF is_in_orphan_process_group(ls, p) THEN TtyRes("EIO", {})
    ELSE IF "SIGTTIN" \in sg[p].sigmask THEN TtyRes("EIO", {})
    ELSE IF "SIGTTIN" \in sg[p].ignored THEN TtyRes("EIO", {})
    ELSE TtyRes("Ok", kill_group(ls, sg, p, "SIGTTIN"))

\* TTYDeviceHandle::check_sigttou.
check_sigttou(ls, sg, t, p) ==
    IF ~t.tostop THEN TtyRes("Ok", {})
    ELSE IF "SIGTTOU" \in sg[p].sigmask THEN TtyRes("EIO", {})
    ELSE IF "SIGTTOU" \in sg[p].ignored THEN TtyRes("EIO", {})
    ELSE IF is_in_orphan_process_group(ls, p) THEN TtyRes("EIO", {})
    ELSE TtyRes("Ok", kill_group(ls, sg, p, "SIGTTOU"))

\* ------------------------------------------------------------------ signals

SIGFPE == 8
SIGSEGV == 11
\* Signal::can_catch: every signal but SIGKILL (9) and SIGSTOP (19).
can_catch(sig) == sig \notin {9, 19}

\* Process::kill that keeps a blocked signal pending.
KillHoldsBlocked(pending, mask, sig) == pending \cup {sig}

\* Process::kill: the pending set after it.
KillSignal(pending, mask, sig) ==
    IF can_catch(sig) /\ sig \in mask THEN pending ELSE pending \cup {sig}

\* next_signal that does not look at the mask.
NextSignalAnyPending(pending, mask, peek) ==
    [sig |-> IF pending = {} THEN 0 ELSE SetMin(pending),
     pending |-> IF peek \/ pending = {} THEN pending ELSE pending \ {SetMin(pending)}]

\* ProcessSignal::next_signal: the first signal, from number `i` on, that is
\* pending and is uncatchable or not blocked; 0 for None.
RECURSIVE FirstSignal(_, _, _)
FirstSignal(pending, mask, i) ==
    IF \A sig \in pending : sig < i THEN 0
    ELSE IF i \in pending /\ (~can_catch(i) \/ i \notin mask) THEN i
    ELSE FirstSignal(pending, mask, i + 1)

\* ProcessSignal::next_signal: the signal returned (0 for None) and the
\* pending set after the call.
SigRes(sig, pending) == [sig |-> sig, pending |-> pending]
next_signal(pending, mask, peek) ==
    SigRes(FirstSignal(pending, mask, 0),
           IF peek THEN pending ELSE pending \ {FirstSignal(pending, mask, 0)})

\* Result of yield_current: the signal whose handler was invoked (0: none),
\* the pending set, the state of the process, and whether Scheduler::tick
\* was called.
YieldRes(sig, pending, state, tick) ==
    [sig |-> sig, pending |-> pending, state |-> state, tick |-> tick]

\* yield_current that delivers a signal whatever the state of the process.
YieldIgnoresState(ring, pending, mask, state, after) ==
    IF ring < 3 THEN YieldRes(0, pending, state, FALSE)
    ELSE IF FirstSignal(pending, mask, 0) = 0 THEN YieldRes(0, pending, state, state # "Running")
    ELSE YieldRes(FirstSignal(pending, mask, 0), pending \ {FirstSignal(pending, mask, 0)},
                  after, after # "Running")

\* yield_current and yield_current_impl; `after` is the state the handler
\* invocation leaves the process in.
yield_current(ring, pending, mask, state, after) ==
    IF ring < 3 THEN YieldRes(0, pending, state, FALSE)
    ELSE IF state # "Running" THEN YieldRes(0, pending, state, TRUE)
    ELSE IF next_signal(pending, mask, FALSE).sig = 0 THEN YieldRes(0, pending, state, FALSE)
    ELSE YieldRes(next_signal(pending, mask, FALSE).sig,
                  next_signal(pending, mask, FALSE).pending, after, after # "Running")

\* The addresses of raw_copy and copy_fault.
RAW_COPY == 64
COPY_FAULT == 66

\* page_fault_callback: `has_space`, the current process has a memory space;
\* `success`, the result of handle_page_fault.  Result: panic or continue,
\* the saved program counter and the pending set.
FaultCbRes(panic, pc, pending) == [panic |-> panic, pc |-> pc, pending |-> pending]
page_fault_callback(has_space, success, ring, pc, pending, mask) ==
    IF ~has_space THEN FaultCbRes(TRUE, pc, pending)
    ELSE IF success THEN FaultCbRes(FALSE, pc, pending)
    ELSE IF ring < 3
    THEN (IF RAW_COPY <= pc /\ pc < COPY_FAULT THEN FaultCbRes(FALSE, COPY_FAULT, pending)
          ELSE FaultCbRes(TRUE, pc, pending))
    ELSE FaultCbRes(FALSE, pc, KillSignal(pending, mask, SIGSEGV))

\* ------------------------------------------------------------- user copies

\* The greatest usize.  The width is 16 bits here instead of 32: the window
\* [PAGE_SIZE, COPY_BUFFER) lies well below it, and an address near the top
\* overflows in the same way.
USIZE_MAX == 2^16 - 1
saturating_add(a, n) == IF a + n > USIZE_MAX THEN USIZE_MAX ELSE a + n

\* bound_check.
bound_check(addr, n) == addr >= PAGE_SIZE /\ saturating_add(addr, n) <= COPY_BUFFER

\* A range of memory: `n` bytes from `addr`.
Range(addr, n) == [addr |-> addr, n |-> n]

\* The result of the first part of a copy of a wrapper: "None" for a null
\* pointer, "EFAULT", or "copy" when raw_copy has begun; and the ranges of
\* user memory the wrapper reads or writes.
CopyRes(res, touched) == [res |-> res, touched |-> touched]

\* SyscallPtr, SyscallSlice and SyscallString over copy_from_user_raw and
\* copy_to_user_raw, up to the call of raw_copy.
copy_user(ptr, n) ==
    IF ptr = 0 THEN CopyRes("None", {})
    ELSE IF ~bound_check(ptr, n) THEN CopyRes("EFAULT", {})
    ELSE CopyRes("copy", {Range(ptr, n)})

\* A chunk that does not stop at the end of the page.
ChunkAcrossPages(ptr) == 128

\* SyscallString::copy_from_user: the length of the chunk read at `ptr`.
StringChunk(ptr) == Min(PAGE_SIZE - (ptr % PAGE_SIZE), 128)

\* SyscallArrayIterator::next, up to the call of raw_copy: the entry `i` of
\* the array at `arr` is read in place and holds `str_ptr`.
array_next(arr, i, str_ptr) ==
    IF arr = 0 THEN CopyRes("EFAULT", {})
    ELSE CopyRes(copy_user(str_ptr, StringChunk(str_ptr)).res,
                 {Range(arr + i * 4, 4)} \cup copy_user(str_ptr, StringChunk(str_ptr)).touched)

\* -------------------------------------------------------------------- VMem

\* VMem::new: the userspace part of a fresh context maps nothing.
VMemNew == << >>

\* VMem::map that keeps the translation a page already has.
MapKeepsFirst(t, physaddr, virtaddr) ==
    IF virtaddr \in DOMAIN t THEN t ELSE (virtaddr :> physaddr) @@ t

\* VMem::map: the entry of the page is written, whatever it held.
map(t, physaddr, virtaddr) == (virtaddr :> physaddr) @@ t

\* VMem::unmap: the entry of the page is cleared.
unmap(t, virtaddr) == [v \in DOMAIN t \ {virtaddr} |-> t[v]]

\* VMem::translate: <<physical address>>, or << >> for None.
translate(t, virtaddr) == IF virtaddr \in DOMAIN t THEN <<t[virtaddr]>> ELSE << >>

\* ------------------------------------------------------ the fields of fork

\* The fields of a process that fork sets: `mem_space`, `file_descriptors`
\* and `handlers` are identities of shared objects (0: None).
Task(tid, parent, sigmask, sigpending, mem_space, file_descriptors, handlers) ==
    [tid |-> tid, state |-> "Running", parent |-> parent, children |-> <<>>,
     sigmask |-> sigmask, sigpending |-> sigpending, exit_status |-> 0,
     mem_space |-> mem_space, file_descriptors |-> file_descriptors,
     handlers |-> handlers]

\* An identity that no object has.
NewObj(hp) == SetMin((1..(Cardinality(DOMAIN hp) + 1)) \ DOMAIN hp)

\* Arc::clone of object `id` when `share`, and a new object with the same
\* content otherwise (MemSpace::fork, FileDescriptorTable::duplicate, clone
\* of the handlers); None stays None.
ObjRes(hp, id) == [heap |-> hp, id |-> id]
CloneObj(hp, id, share) ==
    IF share \/ id = 0 THEN ObjRes(hp, id)
    ELSE ObjRes((NewObj(hp) :> hp[id]) @@ hp, NewObj(hp))

\* A child that inherits the pending signals of its parent.
ChildInheritsPending(ts, p, pid, mem_space, file_descriptors, handlers) ==
    (pid :> Task(pid, p, ts[p].sigmask, ts[p].sigpending, mem_space,
                 file_descriptors, handlers))
        @@ [ts EXCEPT ![p].children = add_child(@, pid)]

\* Process::fork: the child of `p`, of PID `pid`, is built, added to the
\* children of `p` and to the processes.
Child(ts, p, pid, mem_space, file_descriptors, handlers) ==
    (pid :> Task(pid, p, ts[p].sigmask, {}, mem_space, file_descriptors, handlers))
        @@ [ts EXCEPT ![p].children = add_child(@, pid)]

\* The page of an address, and the addresses of a chunk.
PageBase(addr) == (addr \div PAGE_SIZE) * PAGE_SIZE
ChunkAddrs(c) == c.addr..(c.addr + c.n - 1)

\* SyscallString::copy_from_user on the string at `ptr`, the pages `mapped`
\* being readable and the bytes at `nuls` being NUL: `res` is "reading" in
\* the loop, and then "None", "Ok" or "EFAULT"; `len` is the length of the
\* buffer, `chunk` the last chunk given to raw_copy and `turns` the number of
\* turns of the loop.
StrCopy(ptr, mapped, nuls, res, len, chunk, turns) ==
    [ptr |-> ptr, mapped |-> mapped, nuls |-> nuls, res |-> res, len |-> len,
     chunk |-> chunk, turns |-> turns]

\* The beginning of SyscallString::copy_from_user.
string_begin(ptr, mapped, nuls) ==
    StrCopy(ptr, mapped, nuls, IF ptr = 0 THEN "None" ELSE "reading", 0, Range(0, 0), 0)

\* The chunk `c` has passed bound_check and is read by raw_copy: a fault on a
\* page that is not mapped gives EFAULT, a NUL in the chunk ends the string.
StringRead(st, c) ==
    IF PageBase(c.addr) \notin st.mapped
    THEN [st EXCEPT !.res = "EFAULT", !.chunk = c, !.turns = @ + 1]
    ELSE IF st.nuls \cap ChunkAddrs(c) # {}
    THEN [st EXCEPT !.res = "Ok", !.chunk = c, !.turns = @ + 1,
                    !.len = SetMin(st.nuls \cap ChunkAddrs(c)) - st.ptr]
    ELSE [st EXCEPT !.len = @ + c.n, !.chunk = c, !.turns = @ + 1]

\* One turn of the loop of SyscallString::copy_from_user.
string_turn(st) ==
    IF copy_user(st.ptr + st.len, StringChunk(st.ptr + st.len)).res # "copy"
    THEN [st EXCEPT !.res = "EFAULT", !.chunk = Range(0, 0), !.turns = @ + 1]
    ELSE StringRead(st, Range(st.ptr + st.len, StringChunk(st.ptr + st.len)))

\* ------------------------------------------------------------------ state

VARIABLES
    gaps,          \* MemSpaceState::gaps, keyed by begin address
    mappings,      \* MemSpaceState::mappings, keyed by begin address
    vmem_usage,    \* MemSpaceState::vmem_usage
    vmem,          \* pages the page table of MemSpace::vmem translates
    brk_init,      \* MemSpace::brk_init
    brk,           \* MemSpace::brk
    brk_init_set,  \* whether set_brk_init has been called
    halted,        \* the kernel has stopped on an arithmetic underflow
    ops,           \* number of operations applied so far
    last           \* the last operation: its arguments, result and pre-state

\* The two memory spaces of a fork, the frames behind their pages and what
\* their page tables allow.
VARIABLES
    spaces,        \* the MemSpace of the parent and of the child (NoSpace: none)
    frames,        \* per process, the frame each populated page refers to
    ptw,           \* per process, the pages its page table translates writable
    content,       \* the byte each allocated frame holds
    logical,       \* per process, the byte the process last stored in each page
    cowlast        \* the last operation of the fork model

\* The process table and the scheduler.
VARIABLES
    procs,         \* the processes of the scheduler, by PID
    running,       \* the scheduler's count of running processes
    panicked,      \* the kernel has panicked
    plast          \* the last operation of the process model

\* The links of the processes to their groups.
VARIABLES
    links,         \* per PID, ProcessLinks::group_leader and ::process_group
    glast          \* the last operation of the process group model

\* The signals of the current process and its return from an interruption.
VARIABLES
    sigpending,    \* ProcessSignal::sigpending, the set of pending signals
    sigmask,       \* ProcessSignal::sigmask, the set of blocked signals
    pstate,        \* the state of the current process
    frame_pc,      \* the saved program counter of the interrupt frame
    kpanic,        \* an interruption callback has asked for a panic
    slast          \* the last operation of the signal model

\* The copies between userspace and kernelspace.
VARIABLES
    smap,          \* the SMAP gate of the CPU is enabled
    inflight,      \* the raw copies begun and not yet returned, innermost last
    clast          \* the last operation of the copy model

\* A virtual memory context.
VARIABLES
    table,         \* the page table of the context: virtual page -> physical page
    hist           \* the map and unmap calls made on the context, oldest first

\* The processes with what fork copies or shares.
VARIABLES
    tasks,         \* PID -> the fields of the process
    heap,          \* the shared objects (memory spaces, file descriptor
                   \* tables, handler tables): identity -> content
    tlast          \* the last operation of the fork model

\* The TTY device; the groups of the processes are in `links`.
VARIABLES
    tty,           \* the foreground group of the TTY and the TOSTOP flag
    tsig,          \* per PID, the blocked and the ignored signals of the TTY
    ttylast        \* the last operation on the TTY device

\* The chunks of the kernel allocator (malloc).
VARIABLES
    block,         \* the list of the chunks of the block, from Block::first_chunk
                   \* (empty: no block)
    mlast          \* the last operation of the allocator

\* The copy of a string from userspace.
VARIABLES
    str            \* the SyscallString::copy_from_user in progress or finished

memVars == <<gaps, mappings, vmem_usage, vmem, brk_init, brk, brk_init_set, halted,
             ops, last>>
cowVars == <<spaces, frames, ptw, content, logical, cowlast>>
procVars == <<procs, running, panicked, plast>>

groupVars == <<links, glast>>
sigVars == <<sigpending, sigmask, pstate, frame_pc, kpanic, slast>>
copyVars == <<smap, inflight, clast>>
vmVars == <<table, hist>>
taskVars == <<tasks, heap, tlast>>
strVars == <<str>>
ttyVars == <<tty, tsig, ttylast>>
mallocVars == <<block, mlast>>
auxVars == <<groupVars, sigVars, copyVars, vmVars, taskVars, strVars, ttyVars, mallocVars>>

vars == <<memVars, cowVars, procVars, auxVars>>

\* The memory space as one value.
Cur ==
    [gaps |-> gaps, mappings |-> mappings, vmem_usage |-> vmem_usage,
     vmem |-> vmem, brk_init |-> brk_init, brk |-> brk]

Become(s) ==
    /\ gaps' = s.gaps
    /\ mappings' = s.mappings
    /\ vmem_usage' = s.vmem_usage
    /\ vmem' = s.vmem
    /\ brk_init' = s.brk_init
    /\ brk' = s.brk

\* The record of an operation.  `kind` is the constraint of a map, `addr`
\* and `size` the request, `arg` the protection of a map, the brk flag of an
\* unmap (1/0) or the code of a page fault, `oom` whether an allocation
\* failed, `ok` the success (or "handled"), `ret` the address returned,
\* `staged` what a failing transaction had already changed (see Staged),
\* `pre` the state before.  The request of an operation that failed on an
\* allocation is not recorded.
Last(op, kind, addr, size, arg, oom, ok, ret, staged, pre) ==
    IF oom
    THEN [op |-> op, kind |-> "None", addr |-> 0, size |-> 0, arg |-> 0,
          oom |-> oom, ok |-> ok, ret |-> ret, staged |-> staged, pre |-> pre]
    ELSE [op |-> op, kind |-> kind, addr |-> addr, size |-> size, arg |-> arg,
          oom |-> oom, ok |-> ok, ret |-> ret, staged |-> staged, pre |-> pre]

\* ----------------------------------------------------------------- inputs

PageAddrs == {p * PAGE_SIZE : p \in 0..(WindowPages + 1)}
\* Addresses given to map(Fixed) and unmap: the page below the window, the
\* pages of the window, COPY_BUFFER, and one unaligned address.
MapAddrs == PageAddrs \cup {ALLOC_BEGIN + 1}
\* Hints: a page inside the window, a page outside every gap, one unaligned.
HintAddrs == {0, ALLOC_BEGIN + PAGE_SIZE, ALLOC_BEGIN + 1}
Sizes == 1..MaxSize
UserFlags == MAP_PRIVATE + MAP_ANONYMOUS
Constraints ==
    {Fixed(a) : a \in MapAddrs} \cup {Hint(a) : a \in HintAddrs} \cup {NoConstraint}
\* The protection requested: read-write, and read-only for one-page requests.
ProtsFor(size) ==
    IF size = 1 THEN {PROT_READ, PROT_READ + PROT_WRITE} ELSE {PROT_READ + PROT_WRITE}
\* Addresses given to set_brk: aligned, one byte above a page boundary, and
\* two bytes above the first page boundary of the window.
BrkAddrs ==
    {p * PAGE_SIZE + d : p \in 0..(WindowPages + 1), d \in {0, 1}}
        \cup {ALLOC_BEGIN + 2}
BrkInitAddrs == {ALLOC_BEGIN, ALLOC_BEGIN + PAGE_SIZE}
FaultAddrs == {p * PAGE_SIZE + 8 : p \in 0..(WindowPages + 1)}
FaultCodes == {0, PAGE_FAULT_WRITE, PAGE_FAULT_INSTRUCTION}
FailAts == 0..MaxFailAt

\* Whether the ranges of two entries of a map overlap.
Overlapping(f) ==
    \E a, b \in DOMAIN f : a < b /\ b < a + f[a].size * PAGE_SIZE
\* The choices of a lookup: they differ only when ranges overlap.
HiChoices == IF Overlapping(gaps) \/ Overlapping(mappings) THEN BOOLEAN ELSE {FALSE}

\* ----------------------------------------------------------------- actions

MemInit ==
    /\ gaps = NewMemSpace.gaps
    /\ mappings = NewMemSpace.mappings
    /\ vmem_usage = NewMemSpace.vmem_usage
    /\ vmem = NewMemSpace.vmem
    /\ brk_init = NewMemSpace.brk_init
    /\ brk = NewMemSpace.brk
    /\ brk_init_set = FALSE
    /\ halted = FALSE
    /\ ops = 0
    /\ last = Last("new", "None", 0, 0, 0, FALSE, TRUE, 0, 0, NewMemSpace)

\* The two processes of a fork.
CowProcs == {"parent", "child"}

\* The record of an operation of the fork model ("map", "fork", or "access"
\* for a page fault, a load or a store): the success of a map or fork and,
\* for a fork, the parent's memory space before it (a new memory space
\* otherwise).
CowLast(op, ok, pre) == [op |-> op, ok |-> ok, pre |-> pre]

\* One process, with a new memory space and no frame.
CowInit ==
    /\ spaces = ("parent" :> NewMemSpace)
    /\ frames = [p \in CowProcs |-> EmptyMap]
    /\ ptw = [p \in CowProcs |-> {}]
    /\ content = EmptyMap
    /\ logical = [p \in CowProcs |-> EmptyMap]
    /\ cowlast = CowLast("new", TRUE, NewMemSpace)

\* The record of an operation of the process model: the process, the state
\* asked for, and for an exit the children and the parent's state before it.
PLast(op, pid, new_state, children, was) ==
    [op |-> op, pid |-> pid, new_state |-> new_state, children |-> children, was |-> was]

\* Process::init: the init process, without memory space, added to the
\* scheduler.
ProcInit ==
    /\ procs = (INIT_PID :> NewProcess(0, FALSE, TRUE, FALSE))
    /\ running = 1
    /\ panicked = FALSE
    /\ plast = PLast("init", INIT_PID, "Running", <<>>, "None")

\* The record of an operation of the process group model: the calling
\* process, the PID given, and the result of a getpgid.
GLast(op, caller, pid, res) == [op |-> op, caller |-> caller, pid |-> pid, res |-> res]

\* The init process is its own leader.
GroupInit ==
    /\ links = (INIT_PID :> GroupLinks(0))
    /\ glast = GLast("init", INIT_PID, 0, SysRes(TRUE, 0))

\* The record of an operation of the signal model: the signal given or
\* returned, the ring, and whether the scheduler was called.
SLast(op, sig, ring, tick) ==
    [op |-> op, sig |-> sig, ring |-> ring, tick |-> tick, pc |-> 0]

\* The current process is Running in userspace, without any signal.
SigInit ==
    /\ sigpending = {}
    /\ sigmask = {}
    /\ pstate = "Running"
    /\ frame_pc = 0
    /\ kpanic = FALSE
    /\ slast = SLast("init", 0, 3, FALSE)

\* The record of an operation of the copy model.
CLast(op, ptr, res, touched) == [op |-> op, ptr |-> ptr, res |-> res, touched |-> touched]

\* No copy is running and SMAP is enabled.
CopyInit ==
    /\ smap = TRUE
    /\ inflight = <<>>
    /\ clast = CLast("init", 0, "None", {})

\* A fresh context.
VMemInit ==
    /\ table = VMemNew
    /\ hist = << >>

\* The record of an operation of the fork model: the process, its child,
\* and the share options.
TLast(op, pid, child, share_memory, share_fd, share_sighand) ==
    [op |-> op, pid |-> pid, child |-> child, share_memory |-> share_memory,
     share_fd |-> share_fd, share_sighand |-> share_sighand]

\* Process::init: the init process has a file descriptor table and a handler
\* table, and no memory space.
TaskInit ==
    /\ tasks = (INIT_PID :> Task(INIT_PID, 0, {}, {}, 0, 1, 2))
    /\ heap = (1 :> 0) @@ (2 :> 0)
    /\ tlast = TLast("init", INIT_PID, 0, FALSE, FALSE, FALSE)

\* No string is being copied.
StrInit == str = string_begin(0, {}, {})

\* The last operation on the TTY device.
TtyLast(op, pid, r) == [op |-> op, pid |-> pid, r |-> r]

\* The TTY has no foreground group and TOSTOP is clear; no process blocks
\* nor ignores a signal.
TtyInit ==
    /\ tty = [pgrp |-> 0, tostop |-> FALSE]
    /\ tsig = [p \in 1..MaxProcs |-> [sigmask |-> {}, ignored |-> {}]]
    /\ ttylast = TtyLast("other", INIT_PID, TtyRes("Ok", {}))

\* The last operation of the allocator: the chunk and the size or delta it
\* is given, what it returns, and the header that split has written.
MLast(op, i, n, res, next) == [op |-> op, i |-> i, n |-> n, res |-> res, next |-> next]

\* malloc::init: no block.
MallocInit ==
    /\ block = <<>>
    /\ mlast = MLast("init", 0, 0, TRUE, <<>>)

AuxInit ==
    /\ GroupInit /\ SigInit /\ CopyInit /\ VMemInit /\ TaskInit /\ StrInit /\ TtyInit
    /\ MallocInit

Init == MemInit /\ CowInit /\ ProcInit /\ AuxInit

\* An operation can be applied.
CanStep == ~halted /\ ops < MaxOps

\* MemSpace::map.
MapOp(c, size, prot, failAt, hi) ==
    /\ CanStep
    /\ \E r \in {Map(Cur, c, size, prot, UserFlags, failAt, hi)} :
          /\ Become(r.st)
          /\ last' = Last("map", c.kind, c.addr, size, prot, r.oom, r.ok, r.ret,
                          r.staged, Cur)
    /\ ops' = ops + 1
    /\ UNCHANGED <<brk_init_set, halted, cowVars, procVars, auxVars>>

\* MemSpace::unmap.
UnmapOp(addr, size, brkMode, failAt, hi) ==
    /\ CanStep
    /\ \E r \in {Unmap(Cur, addr, size, brkMode, failAt, hi)} :
          /\ Become(r.st)
          /\ last' = Last("unmap", "None", addr, size, IF brkMode THEN 1 ELSE 0,
                          r.oom, r.ok, 0, r.staged, Cur)
    /\ ops' = ops + 1
    /\ UNCHANGED <<brk_init_set, halted, cowVars, procVars, auxVars>>

\* MemSpace::set_brk_init, called once, before set_brk has moved the break.
SetBrkInitOp(addr) ==
    /\ CanStep
    /\ ~brk_init_set
    /\ brk = 0
    /\ brk_init' = addr
    /\ brk' = addr
    /\ brk_init_set' = TRUE
    /\ last' = Last("set_brk_init", "None", addr, 0, 0, FALSE, TRUE, 0, 0, Cur)
    /\ ops' = ops + 1
    /\ UNCHANGED <<gaps, mappings, vmem_usage, vmem, halted, cowVars, procVars, auxVars>>

\* MemSpace::set_brk.  An underflow of `addr.0 - begin.0` stops the kernel
\* in a build that checks overflows; without the checks the request is
\* sized by the wrapped value, which the model does not follow: it stops at
\* the underflow in both cases.
SetBrkOp(addr, failAt, hi) ==
    /\ CanStep
    /\ \E r \in {set_brk(Cur, addr, failAt, hi)} :
          /\ Become(r.st)
          /\ halted' = r.underflow
          /\ last' = Last("set_brk", "None", addr, 0, 0, r.oom, r.ok, 0, 0, Cur)
    /\ ops' = ops + 1
    /\ UNCHANGED <<brk_init_set, cowVars, procVars, auxVars>>

\* MemSpace::handle_page_fault.
PageFaultOp(addr, code, hi, fail) ==
    /\ CanStep
    /\ \E r \in {handle_page_fault(Cur, addr, code, hi, fail)} :
          /\ Become(r.st)
          /\ last' = Last("page_fault", "None", addr, 0, code, r.oom, r.handled, 0,
                          0, Cur)
    /\ ops' = ops + 1
    /\ UNCHANGED <<brk_init_set, halted, cowVars, procVars, auxVars>>

Next ==
    \/ \E c \in Constraints, size \in Sizes, failAt \in FailAts, hi \in HiChoices :
          \E prot \in ProtsFor(size) : MapOp(c, size, prot, failAt, hi)
    \/ \E addr \in MapAddrs, size \in Sizes, brkMode \in BOOLEAN,
          failAt \in FailAts, hi \in HiChoices :
          UnmapOp(addr, size, brkMode, failAt, hi)
    \/ \E addr \in BrkInitAddrs : SetBrkInitOp(addr)
    \/ \E addr \in BrkAddrs, failAt \in FailAts, hi \in HiChoices :
          SetBrkOp(addr, failAt, hi)
    \/ \E addr \in FaultAddrs, code \in FaultCodes, hi \in HiChoices,
          fail \in BOOLEAN :
          PageFaultOp(addr, code, hi, fail)

Spec == Init /\ [][Next]_vars

\* ------------------------------------------------------------ fork and COW

\* A parent process maps private anonymous memory, forks without sharing its
\* memory space, and both processes read and write through their page
\* tables, taking page faults.  A mapping carries, per page, a reference to
\* a frame; the clone of the mappings made by MemSpace::fork refers to the
\* same frames.

Other(p) == IF p = "parent" THEN "child" ELSE "parent"
PageOf(addr) == (addr \div PAGE_SIZE) * PAGE_SIZE
\* The byte process `p` last stored in page `pg` (zero if it never did).
Logical(p, pg) == IF pg \in DOMAIN logical[p] THEN logical[p][pg] ELSE 0
\* The frame allocated for page `pg`: a frame is numbered after the page it
\* is first used for, the first free number from the page's address on.
NewFrame(pg) == IF pg \in DOMAIN content THEN pg + 1 ELSE pg
\* Whether the frame of page `pg` of `p` is also referred to by the other
\* process.
FrameShared(p, pg) ==
    /\ pg \in DOMAIN frames[p]
    /\ pg \in DOMAIN frames[Other(p)]
    /\ frames[Other(p)][pg] = frames[p][pg]
\* Whether an access by `p` to `addr` takes a page fault: a read when the
\* page is not translated, a write when it is not translated writable.
Faults(p, addr, code) ==
    IF HasBit(code, PAGE_FAULT_WRITE) THEN PageOf(addr) \notin ptw[p]
    ELSE PageOf(addr) \notin spaces[p].vmem

\* MemMapping::map on page `pg` of process `p`, `w` telling whether the
\* mapping is writable and `write` whether the fault is a write.  A page
\* without a frame gets a zeroed frame.  A frame shared with the other
\* process is installed read-only on a read; a write gives the process a
\* private copy, installed writable.  Result: the frames of `p`, the
\* contents and the writable pages of `p`.
CowRes(fr, ct, pw) == [frames |-> fr, content |-> ct, ptw |-> pw]
Writable(p, pg, w) == IF w THEN ptw[p] \cup {pg} ELSE ptw[p]
CowMapPage(p, pg, w, write) ==
    IF pg \notin DOMAIN frames[p]
    THEN CowRes(MapInsert(frames[p], pg, NewFrame(pg)),
                MapInsert(content, NewFrame(pg), 0), Writable(p, pg, w))
    ELSE IF ~FrameShared(p, pg) THEN CowRes(frames[p], content, Writable(p, pg, w))
    ELSE IF ~write THEN CowRes(frames[p], content, ptw[p])
    ELSE CowRes([frames[p] EXCEPT ![pg] = NewFrame(pg)],
                MapInsert(content, NewFrame(pg), content[frames[p][pg]]),
                Writable(p, pg, w))

\* The protection of the mapping of `s` found for `addr`.
WritableAt(s, addr) ==
    HasBit(get_mapping_for_addr(s.mappings, addr, FALSE).prot, PROT_WRITE)

\* The parent maps private anonymous memory, before it forks.
CowMapOp(size, prot) ==
    /\ "child" \notin DOMAIN spaces
    /\ \E r \in {Map(spaces["parent"], NoConstraint, size, prot, UserFlags, 0, FALSE)} :
          /\ spaces' = [spaces EXCEPT !["parent"] = r.st]
          /\ cowlast' = CowLast("map", r.ok, NewMemSpace)
    /\ UNCHANGED <<frames, ptw, content, logical, memVars, procVars, auxVars>>

\* Process::fork without share_memory, for its memory: MemSpace::fork.  The
\* child's mappings refer to the parent's frames.
CowForkOp(failAt) ==
    /\ "child" \notin DOMAIN spaces
    /\ \E r \in {fork(spaces["parent"], failAt)} :
          /\ spaces' = IF r.ok THEN ("parent" :> r.parent) @@ ("child" :> r.child)
                        ELSE ("parent" :> r.parent)
          /\ frames' = IF r.ok THEN [frames EXCEPT !["child"] = frames["parent"]]
                        ELSE frames
          /\ logical' = IF r.ok THEN [logical EXCEPT !["child"] = logical["parent"]]
                         ELSE logical
          /\ ptw' = [ptw EXCEPT !["parent"] = @ \cap r.parent.vmem]
          /\ cowlast' = CowLast("fork", r.ok, spaces["parent"])
    /\ UNCHANGED <<content, memVars, procVars, auxVars>>

\* An access of `p` to `addr` takes a page fault: handle_page_fault.
CowFaultOp(p, addr, code, fail) ==
    /\ p \in DOMAIN spaces
    /\ Faults(p, addr, code)
    /\ \E r \in {handle_page_fault(spaces[p], addr, code, FALSE, fail)} :
          /\ spaces' = [spaces EXCEPT ![p] = r.st]
          /\ cowlast' = CowLast("access", TRUE, NewMemSpace)
          /\ IF r.handled
             THEN \E c \in {CowMapPage(p, PageOf(addr), WritableAt(spaces[p], addr),
                                       HasBit(code, PAGE_FAULT_WRITE))} :
                     /\ frames' = [frames EXCEPT ![p] = c.frames]
                     /\ content' = c.content
                     /\ ptw' = [ptw EXCEPT ![p] = c.ptw]
             ELSE UNCHANGED <<frames, content, ptw>>
    /\ UNCHANGED <<logical, memVars, procVars, auxVars>>

\* `p` stores byte `v` at `addr`, through a writable translation.
CowWriteOp(p, addr, v) ==
    /\ p \in DOMAIN spaces
    /\ PageOf(addr) \in ptw[p]
    /\ content' = [content EXCEPT ![frames[p][PageOf(addr)]] = v]
    /\ logical' = [logical EXCEPT ![p] = MapInsert(@, PageOf(addr), v)]
    /\ cowlast' = CowLast("access", TRUE, NewMemSpace)
    /\ UNCHANGED <<spaces, frames, ptw, memVars, procVars, auxVars>>

\* `p` loads the byte at `addr`, through a translation.
CowReadOp(p, addr) ==
    /\ p \in DOMAIN spaces
    /\ PageOf(addr) \in spaces[p].vmem
    /\ cowlast' = CowLast("access", TRUE, NewMemSpace)
    /\ UNCHANGED <<spaces, frames, ptw, content, logical, memVars, procVars, auxVars>>

\* The addresses accessed: one in each page of the window.
CowAddrs == {ALLOC_BEGIN + i * PAGE_SIZE + 8 : i \in 0..(WindowPages - 1)}
\* The bytes stored: 0xAA.
CowBytes == {170}
\* The failures of MemSpace::fork: none, the first clone, the second.
ForkFailAts == 0..2

NextFork ==
    \/ \E size \in Sizes : \E prot \in ProtsFor(size) : CowMapOp(size, prot)
    \/ \E failAt \in ForkFailAts : CowForkOp(failAt)
    \/ \E p \in CowProcs, addr \in CowAddrs, code \in {0, PAGE_FAULT_WRITE},
          fail \in BOOLEAN : CowFaultOp(p, addr, code, fail)
    \/ \E p \in CowProcs, addr \in CowAddrs, v \in CowBytes : CowWriteOp(p, addr, v)
    \/ \E p \in CowProcs, addr \in CowAddrs : CowReadOp(p, addr)

SpecFork == Init /\ [][NextFork]_vars

\* ------------------------------------------------------- process lifecycle

States == {"Running", "Sleeping", "Stopped", "Zombie"}
\* The values the count of running processes is followed over: a step that
\* would take it further is not taken.
RunningRange == (0 - 1)..MaxProcs

\* The state of the parent of `p`.
ParentState(p) ==
    IF procs[p].parent = 0 THEN "None" ELSE procs[procs[p].parent].state

\* The process table, the count and the panic become those of `r`.
BecomeProcs(r) ==
    /\ r.running \in RunningRange
    /\ procs' = r.procs
    /\ running' = r.running
    /\ panicked' = r.panicked

\* Process::fork by a running process; `fail`: an allocation fails.
ForkOp(p, fail) ==
    /\ ~panicked
    /\ procs[p].state = "Running"
    /\ Cardinality(DOMAIN procs) < MaxProcs
    /\ BecomeProcs(IF fail THEN PRes(procs, running, FALSE) ELSE ProcessFork(procs, running, p))
    /\ plast' = PLast("fork", p, "Running", <<>>, "None")
    /\ UNCHANGED <<memVars, cowVars, auxVars>>

\* A process without memory space gets one (the execution of a program).
ExecOp(p) ==
    /\ ~panicked
    /\ procs[p].state = "Running"
    /\ ~procs[p].mem_space
    /\ procs' = [procs EXCEPT ![p].mem_space = TRUE]
    /\ plast' = PLast("exec", p, "Running", <<>>, "None")
    /\ UNCHANGED <<running, panicked, memVars, cowVars, auxVars>>

\* Process::set_state.
SetStateOp(p, new_state) ==
    /\ ~panicked
    /\ BecomeProcs(set_state(procs, running, p, new_state))
    /\ plast' = PLast("set_state", p, new_state, <<>>, "None")
    /\ UNCHANGED <<memVars, cowVars, auxVars>>

\* Process::wake.
WakeOp(p) ==
    /\ ~panicked
    /\ procs' = wake(procs, p)
    /\ plast' = PLast("wake", p, "Running", <<>>, "None")
    /\ UNCHANGED <<running, panicked, memVars, cowVars, auxVars>>

\* Process::vfork_wake, by a process that has not exited.
VforkWakeOp(p) ==
    /\ ~panicked
    /\ procs[p].state # "Zombie"
    /\ BecomeProcs(vfork_wake(procs, running, p))
    /\ plast' = PLast("vfork_wake", p, "Running", <<>>, "None")
    /\ UNCHANGED <<memVars, cowVars, auxVars>>

\* Process::exit, by a process that has not exited.
ExitOp(p) ==
    /\ ~panicked
    /\ procs[p].state # "Zombie"
    /\ BecomeProcs(exit(procs, running, p))
    /\ plast' = PLast("exit", p, "Zombie", procs[p].children, ParentState(p))
    /\ UNCHANGED <<memVars, cowVars, auxVars>>

\* ProcessSignal::next_signal(false): the pending SIGCHLD is taken.
NextSignalOp(p) ==
    /\ ~panicked
    /\ procs[p].sigpending
    /\ ~procs[p].sigmask
    /\ procs' = [procs EXCEPT ![p].sigpending = FALSE]
    /\ plast' = PLast("next_signal", p, procs[p].state, <<>>, "None")
    /\ UNCHANGED <<running, panicked, memVars, cowVars, auxVars>>

\* The init process blocks SIGCHLD before it forks: every process inherits
\* the mask.
SigmaskOp(p, blocked) ==
    /\ ~panicked
    /\ DOMAIN procs = {p}
    /\ procs[p].state = "Running"
    /\ procs[p].sigmask # blocked
    /\ procs' = [procs EXCEPT ![p].sigmask = blocked]
    /\ plast' = PLast("sigmask", p, "Running", <<>>, "None")
    /\ UNCHANGED <<running, panicked, memVars, cowVars, auxVars>>

NextProc ==
    \/ \E p \in DOMAIN procs, fail \in BOOLEAN : ForkOp(p, fail)
    \/ \E p \in DOMAIN procs : ExecOp(p)
    \/ \E p \in DOMAIN procs, new_state \in States : SetStateOp(p, new_state)
    \/ \E p \in DOMAIN procs : WakeOp(p)
    \/ \E p \in DOMAIN procs : VforkWakeOp(p)
    \/ \E p \in DOMAIN procs : ExitOp(p)
    \/ \E p \in DOMAIN procs : NextSignalOp(p)
    \/ \E p \in DOMAIN procs, blocked \in {TRUE} : SigmaskOp(p, blocked)

SpecProc == Init /\ [][NextProc]_vars

\* ----------------------------------------------------------- group actions

\* What the process group model leaves alone.
notGroup == <<memVars, cowVars, procVars, sigVars, copyVars, vmVars, taskVars, strVars, ttyVars, mallocVars>>

\* Process::fork by a process that has not exited.
GroupForkOp(p) ==
    /\ ~links[p].zombie
    /\ Cardinality(DOMAIN links) < MaxProcs
    /\ links' = GroupFork(links, p)
    /\ glast' = GLast("fork", p, 0, SysRes(TRUE, 0))
    /\ UNCHANGED notGroup

\* Process::set_pgid.
SetPgidOp(p, pgid) ==
    /\ ~links[p].zombie
    /\ links' = set_pgid(links, p, pgid)
    /\ glast' = GLast("set_pgid", p, pgid, SysRes(TRUE, 0))
    /\ UNCHANGED notGroup

\* Process::exit: the links to the groups are left as they are.
GroupExitOp(p) ==
    /\ p # INIT_PID
    /\ ~links[p].zombie
    /\ links' = [links EXCEPT ![p].zombie = TRUE]
    /\ glast' = GLast("exit", p, 0, SysRes(TRUE, 0))
    /\ UNCHANGED notGroup

\* The getpgid system call.
GetpgidOp(caller, pid) ==
    /\ ~links[caller].zombie
    /\ glast' = GLast("getpgid", caller, pid, getpgid(links, caller, pid))
    /\ UNCHANGED <<links, notGroup>>

\* The PIDs given to the system calls: 0, the processes, and an unknown one.
PidArgs == 0..(MaxProcs + 1)

NextGroup ==
    \/ \E p \in DOMAIN links : GroupForkOp(p)
    \/ \E p \in DOMAIN links, pgid \in PidArgs : SetPgidOp(p, pgid)
    \/ \E p \in DOMAIN links : GroupExitOp(p)
    \/ \E caller \in DOMAIN links, pid \in PidArgs : GetpgidOp(caller, pid)

SpecGroup == Init /\ [][NextGroup]_vars

\* ---------------------------------------------------------- signal actions

\* What the signal model leaves alone.
notSig == <<memVars, cowVars, procVars, groupVars, copyVars, vmVars, taskVars, strVars, ttyVars, mallocVars>>

\* Two catchable signals and SIGKILL, whose number lies between theirs.
Signals == {SIGFPE, 9, SIGSEGV}
\* The program counters of an interruption: in userspace, and in the kernel
\* around and inside the raw copy.
KernelPcs == (RAW_COPY - 1)..COPY_FAULT

\* The process has not exited and the kernel has not panicked.
SigLive == ~kpanic /\ pstate # "Zombie"

\* Process::kill.
KillOp(sig) ==
    /\ SigLive
    /\ sigpending' = KillSignal(sigpending, sigmask, sig)
    /\ slast' = SLast("kill", sig, 3, FALSE)
    /\ UNCHANGED <<sigmask, pstate, frame_pc, kpanic, notSig>>

\* ProcessSignal::next_signal.
SigNextOp(peek) ==
    /\ SigLive
    /\ sigpending' = next_signal(sigpending, sigmask, peek).pending
    /\ slast' = SLast(IF peek THEN "peek" ELSE "next_signal",
                      next_signal(sigpending, sigmask, peek).sig, 3, FALSE)
    /\ UNCHANGED <<sigmask, pstate, frame_pc, kpanic, notSig>>

\* yield_current, on the return to ring `ring`.
YieldOp(ring, after) ==
    /\ SigLive
    /\ \E r \in {yield_current(ring, sigpending, sigmask, pstate, after)} :
          /\ sigpending' = r.pending
          /\ pstate' = r.state
          /\ slast' = SLast("yield", r.sig, ring, r.tick)
    /\ UNCHANGED <<sigmask, frame_pc, kpanic, notSig>>

\* The page fault interruption: page_fault_callback.
PageFaultCbOp(has_space, success, ring, pc) ==
    /\ SigLive
    /\ pstate = "Running"
    /\ \E r \in {page_fault_callback(has_space, success, ring, pc, sigpending, sigmask)} :
          /\ kpanic' = r.panic
          /\ frame_pc' = r.pc
          /\ sigpending' = r.pending
    /\ slast' = [SLast(IF ~has_space THEN "fault_nospace"
                       ELSE IF success THEN "fault_resolved" ELSE "fault", 0, ring, FALSE)
                 EXCEPT !.pc = pc]
    /\ UNCHANGED <<sigmask, pstate, notSig>>

\* The process changes its signal mask.
SetMaskOp(mask) ==
    /\ SigLive
    /\ pstate = "Running"
    /\ sigmask # mask
    /\ sigmask' = mask
    /\ slast' = SLast("sigmask", 0, 3, FALSE)
    /\ UNCHANGED <<sigpending, pstate, frame_pc, kpanic, notSig>>

\* The process sleeps (set_state(Sleeping)), or is woken (wake).
SleepOp ==
    /\ SigLive
    /\ pstate = "Running"
    /\ pstate' = "Sleeping"
    /\ slast' = SLast("sleep", 0, 3, FALSE)
    /\ UNCHANGED <<sigpending, sigmask, frame_pc, kpanic, notSig>>
SigWakeOp ==
    /\ SigLive
    /\ pstate = "Sleeping"
    /\ pstate' = "Running"
    /\ slast' = SLast("wake", 0, 3, FALSE)
    /\ UNCHANGED <<sigpending, sigmask, frame_pc, kpanic, notSig>>

NextSig ==
    \/ \E sig \in Signals : KillOp(sig)
    \/ \E peek \in BOOLEAN : SigNextOp(peek)
    \/ \E ring \in {0, 3}, after \in {"Running", "Stopped", "Zombie"} : YieldOp(ring, after)
    \/ \E has_space \in BOOLEAN, success \in BOOLEAN :
          \/ PageFaultCbOp(has_space, success, 3, 0)
          \/ \E pc \in KernelPcs : PageFaultCbOp(has_space, success, 0, pc)
    \/ \E mask \in SUBSET Signals : SetMaskOp(mask)
    \/ SleepOp
    \/ SigWakeOp

SpecSig == Init /\ [][NextSig]_vars

\* ------------------------------------------------------------ copy actions

\* What the copy model leaves alone.
notCopy == <<memVars, cowVars, procVars, groupVars, sigVars, vmVars, taskVars, strVars, ttyVars, mallocVars>>

\* The depth of the copies: one of a system call and one of a handler that
\* interrupts it.
MaxNest == 2

\* The pointers given to the wrappers: null, the last byte below PAGE_SIZE,
\* PAGE_SIZE, 4 bytes below COPY_BUFFER, COPY_BUFFER, and 4 bytes below the
\* end of the address space.
CopyPtrs == {0, PAGE_SIZE - 1, PAGE_SIZE, COPY_BUFFER - 4, COPY_BUFFER, USIZE_MAX - 3}

\* The first part of a copy with result `r`: smap_disable disables SMAP when
\* raw_copy is called.
BeginCopy(op, ptr, r) ==
    /\ clast' = CLast(op, ptr, r.res, r.touched)
    /\ IF r.res = "copy"
       THEN smap' = FALSE /\ inflight' = Append(inflight, ptr)
       ELSE UNCHANGED <<smap, inflight>>
    /\ UNCHANGED notCopy

\* copy_from_user or copy_to_user of SyscallPtr and SyscallSlice, on `n`
\* bytes.
CopyOp(ptr, n) ==
    /\ Len(inflight) < MaxNest
    /\ BeginCopy("copy", ptr, copy_user(ptr, n))

\* SyscallString::copy_from_user, for one chunk.
StringCopyOp(ptr) ==
    /\ Len(inflight) < MaxNest
    /\ BeginCopy("string", ptr, copy_user(ptr, StringChunk(ptr)))

\* SyscallArrayIterator::next.
ArrayNextOp(arr, i, str_ptr) ==
    /\ Len(inflight) < MaxNest
    /\ BeginCopy("array", arr, array_next(arr, i, str_ptr))

\* raw_copy returns, or faults and returns false from copy_fault; then
\* smap_disable enables SMAP.
RawCopyReturnOp(fault) ==
    /\ inflight # <<>>
    /\ smap' = TRUE
    /\ inflight' = SubSeq(inflight, 1, Len(inflight) - 1)
    /\ clast' = CLast("return", inflight[Len(inflight)], IF fault THEN "EFAULT" ELSE "Ok", {})
    /\ UNCHANGED notCopy

NextCopy ==
    \/ \E ptr \in CopyPtrs, n \in {4, 8} : CopyOp(ptr, n)
    \/ \E ptr \in CopyPtrs : StringCopyOp(ptr)
    \/ \E arr \in CopyPtrs, i \in 0..1, str_ptr \in {0, PAGE_SIZE, COPY_BUFFER} :
          ArrayNextOp(arr, i, str_ptr)
    \/ \E fault \in BOOLEAN : RawCopyReturnOp(fault)

SpecCopy == Init /\ [][NextCopy]_vars

\* ------------------------------------------------------------ VMem actions

\* What the VMem model leaves alone.
notVMem == <<memVars, cowVars, procVars, groupVars, sigVars, copyVars, taskVars, strVars, ttyVars, mallocVars>>

\* The number of map and unmap calls made on the context.
MaxHist == 4

\* Three userspace pages and two physical pages.
VirtPages == {PAGE_SIZE, 2 * PAGE_SIZE, 3 * PAGE_SIZE}
PhysPages == {256 * PAGE_SIZE, 512 * PAGE_SIZE}

\* VMem::map.
VMapOp(physaddr, virtaddr) ==
    /\ Len(hist) < MaxHist
    /\ table' = map(table, physaddr, virtaddr)
    /\ hist' = Append(hist, [op |-> "map", virt |-> virtaddr, phys |-> physaddr])
    /\ UNCHANGED notVMem

\* VMem::unmap.
VUnmapOp(virtaddr) ==
    /\ Len(hist) < MaxHist
    /\ table' = unmap(table, virtaddr)
    /\ hist' = Append(hist, [op |-> "unmap", virt |-> virtaddr, phys |-> 0])
    /\ UNCHANGED notVMem

NextVMem ==
    \/ \E physaddr \in PhysPages, virtaddr \in VirtPages : VMapOp(physaddr, virtaddr)
    \/ \E virtaddr \in VirtPages : VUnmapOp(virtaddr)

SpecVMem == Init /\ [][NextVMem]_vars

\* ------------------------------------------------------------ fork actions

\* What the fork model leaves alone.
notTask == <<memVars, cowVars, procVars, groupVars, sigVars, copyVars, vmVars, strVars, ttyVars, mallocVars>>

\* The PIDs PidHandle::unique may give: those no process holds.
FreePids == (1..MaxProcs) \ DOMAIN tasks

\* Process::fork with the options of ForkOptions.
TaskForkOp(p, pid, share_memory, share_fd, share_sighand) ==
    /\ tasks[p].state = "Running"
    /\ tasks[p].mem_space # 0
    /\ pid \in FreePids
    /\ \E m \in {CloneObj(heap, tasks[p].mem_space, share_memory)} :
       \E f \in {CloneObj(m.heap, tasks[p].file_descriptors, share_fd)} :
       \E h \in {CloneObj(f.heap, tasks[p].handlers, share_sighand)} :
          /\ tasks' = Child(tasks, p, pid, m.id, f.id, h.id)
          /\ heap' = h.heap
    /\ tlast' = TLast("fork", p, pid, share_memory, share_fd, share_sighand)
    /\ UNCHANGED notTask

\* The process executes a program: it gets a memory space of its own.
TaskExecOp(p) ==
    /\ tasks[p].state = "Running"
    /\ tasks[p].mem_space = 0
    /\ tasks' = [tasks EXCEPT ![p].mem_space = NewObj(heap)]
    /\ heap' = (NewObj(heap) :> 0) @@ heap
    /\ tlast' = TLast("exec", p, 0, FALSE, FALSE, FALSE)
    /\ UNCHANGED notTask

\* The process writes to its memory, its file descriptor table or its
\* handler table.
TaskWriteOp(p, id) ==
    /\ tasks[p].state = "Running"
    /\ id \in {tasks[p].mem_space, tasks[p].file_descriptors, tasks[p].handlers} \ {0}
    /\ heap[id] = 0
    /\ heap' = [heap EXCEPT ![id] = 1]
    /\ tlast' = TLast("write", p, 0, FALSE, FALSE, FALSE)
    /\ UNCHANGED <<tasks, notTask>>

\* The process blocks or unblocks SIGFPE, or SIGFPE is sent to it
\* (Process::kill).
TaskMaskOp(p, mask) ==
    /\ tasks[p].state = "Running"
    /\ tasks[p].sigmask # mask
    /\ tasks' = [tasks EXCEPT ![p].sigmask = mask]
    /\ tlast' = TLast("sigmask", p, 0, FALSE, FALSE, FALSE)
    /\ UNCHANGED <<heap, notTask>>
TaskKillOp(p) ==
    /\ tasks[p].state = "Running"
    /\ tasks' = [tasks EXCEPT ![p].sigpending = KillSignal(@, tasks[p].sigmask, SIGFPE)]
    /\ tlast' = TLast("kill", p, 0, FALSE, FALSE, FALSE)
    /\ UNCHANGED <<heap, notTask>>

NextTask ==
    \/ \E p \in DOMAIN tasks, pid \in 1..MaxProcs :
          \E share_memory \in BOOLEAN, share_fd \in BOOLEAN, share_sighand \in BOOLEAN :
             TaskForkOp(p, pid, share_memory, share_fd, share_sighand)
    \/ \E p \in DOMAIN tasks : TaskExecOp(p)
    \/ \E p \in {INIT_PID}, id \in {tasks[INIT_PID].mem_space, tasks[INIT_PID].handlers} :
          TaskWriteOp(p, id)
    \/ \E p \in {INIT_PID}, mask \in SUBSET {SIGFPE} : TaskMaskOp(p, mask)
    \/ \E p \in {INIT_PID} : TaskKillOp(p)

SpecTask == Init /\ [][NextTask]_vars

\* ---------------------------------------------------------- string actions

\* What the string model leaves alone.
notStr == <<memVars, cowVars, procVars, groupVars, sigVars, copyVars, vmVars, taskVars, ttyVars, mallocVars>>

\* The pointers of the strings: null, below PAGE_SIZE, the first page at
\* several offsets, the last byte of a page, the last page, and COPY_BUFFER.
StrPtrs == {0, PAGE_SIZE - 1, PAGE_SIZE, PAGE_SIZE + 100, 2 * PAGE_SIZE - 1,
            COPY_BUFFER - PAGE_SIZE, COPY_BUFFER - 1, COPY_BUFFER}
\* The addresses that may hold a NUL byte: every other byte is not NUL.
NulAddrs == {PAGE_SIZE, PAGE_SIZE + 100, PAGE_SIZE + 127, PAGE_SIZE + 128,
             2 * PAGE_SIZE - 1, 2 * PAGE_SIZE, COPY_BUFFER - 1}
NulSets == {nuls \in SUBSET NulAddrs : Cardinality(nuls) <= 2}
\* The pages of userspace that may be mapped.
StrPages == {ALLOC_BEGIN + i * PAGE_SIZE : i \in 0..(WindowPages - 1)}

\* SyscallString::copy_from_user is called.
StringBeginOp(ptr, mapped, nuls) ==
    /\ str.res # "reading"
    /\ str' = string_begin(ptr, mapped, nuls)
    /\ UNCHANGED notStr

\* One turn of its loop.
StringTurnOp ==
    /\ str.res = "reading"
    /\ str' = string_turn(str)
    /\ UNCHANGED notStr

NextStr ==
    \/ \E ptr \in StrPtrs, mapped \in SUBSET StrPages, nuls \in NulSets :
          StringBeginOp(ptr, mapped, nuls)
    \/ StringTurnOp

SpecStr == Init /\ [][NextStr]_vars

\* ---------------------------------------------------------- malloc actions

\* What the allocator model leaves alone.
notMalloc == <<memVars, cowVars, procVars, groupVars, sigVars, copyVars, vmVars, taskVars,
               strVars, ttyVars>>

\* Block::new.
BlockNewOp(order) ==
    /\ block = <<>>
    /\ block' = BlockNew(order)
    /\ mlast' = MLast("new", 0, order, TRUE, <<>>)
    /\ UNCHANGED notMalloc

\* Chunk::split on a free chunk.
SplitOp(i, size) ==
    /\ ~is_used(block[i])
    /\ block' = chunk_split(block, i, size)
    /\ mlast' = MLast("split", i, size, TRUE, SplitNext(block[i], size))
    /\ UNCHANGED notMalloc

\* Chunk::coalesce.
CoalesceOp(i) ==
    /\ block' = coalesce(block, i)
    /\ mlast' = MLast("coalesce", i, 0, TRUE, <<>>)
    /\ UNCHANGED notMalloc

\* Chunk::resize.
ResizeOp(i, delta) ==
    /\ block' = resize(block, i, delta).cs
    /\ mlast' = MLast("resize", i, delta, resize(block, i, delta).ok, <<>>)
    /\ UNCHANGED notMalloc

\* malloc::alloc, the buddy allocator being out of memory or not.
AllocOp(n, oom) ==
    /\ mlast' = MLast("alloc", 0, n, <<oom, alloc(n)>>, <<>>)
    /\ UNCHANGED <<block, notMalloc>>

\* malloc::free of a pointer: nothing is done.
FreeOp(i) ==
    /\ mlast' = MLast("free", i, 0, TRUE, <<>>)
    /\ UNCHANGED <<block, notMalloc>>

\* The orders of the frames, the sizes asked of split and alloc, and the
\* deltas given to resize.
Orders == 0..MaxOrder
AllocSizes == {1, FREE_CHUNK_MIN, PAGE_SIZE - BLOCK_HEADER - CHUNK_HEADER - FREE_CHUNK_MIN,
               PAGE_SIZE - BLOCK_HEADER - CHUNK_HEADER - FREE_CHUNK_MIN + 1, PAGE_SIZE}
Deltas == {-PAGE_SIZE, -1000, -FREE_CHUNK_MIN, 0, FREE_CHUNK_MIN}

NextMalloc ==
    \/ \E order \in Orders : BlockNewOp(order)
    \/ \E i \in DOMAIN block, size \in AllocSizes : SplitOp(i, size)
    \/ \E i \in DOMAIN block : CoalesceOp(i)
    \/ \E i \in DOMAIN block, delta \in Deltas : ResizeOp(i, delta)
    \/ \E n \in AllocSizes, oom \in BOOLEAN : AllocOp(n, oom)
    \/ \E i \in DOMAIN block : FreeOp(i)

SpecMalloc == Init /\ [][NextMalloc]_vars

\* ------------------------------------------------------------- TTY actions

\* An operation that is not on the TTY device.
TtyOther == TtyLast("other", INIT_PID, TtyRes("Ok", {}))

\* TTYDeviceHandle::read by a process that has not exited.
TtyReadOp(p) ==
    /\ ~links[p].zombie
    /\ ttylast' = TtyLast("read", p, check_sigttin(links, tsig, tty, p))
    /\ UNCHANGED <<tty, tsig, memVars, cowVars, procVars, groupVars, sigVars, copyVars,
                   vmVars, taskVars, strVars, mallocVars>>

\* TTYDeviceHandle::write.
TtyWriteOp(p) ==
    /\ ~links[p].zombie
    /\ ttylast' = TtyLast("write", p, check_sigttou(links, tsig, tty, p))
    /\ UNCHANGED <<tty, tsig, memVars, cowVars, procVars, groupVars, sigVars, copyVars,
                   vmVars, taskVars, strVars, mallocVars>>

\* TTYDeviceHandle::ioctl, TCSETS, TCSETSW or TCSETSF: the termios is set
\* when the check passes.
TtySetTermiosOp(p, tostop) ==
    /\ ~links[p].zombie
    /\ ttylast' = TtyLast("tcsets", p, check_sigttou(links, tsig, tty, p))
    /\ tty' = IF ttylast'.r.res = "Ok" THEN [tty EXCEPT !.tostop = tostop] ELSE tty
    /\ UNCHANGED <<tsig, memVars, cowVars, procVars, groupVars, sigVars, copyVars,
                   vmVars, taskVars, strVars, mallocVars>>

\* TTYDeviceHandle::ioctl, TIOCSPGRP: the foreground group is set when the
\* check passes.
TtySetPgrpOp(p, pgid) ==
    /\ ~links[p].zombie
    /\ ttylast' = TtyLast("tiocspgrp", p, check_sigttou(links, tsig, tty, p))
    /\ tty' = IF ttylast'.r.res = "Ok" THEN [tty EXCEPT !.pgrp = pgid] ELSE tty
    /\ UNCHANGED <<tsig, memVars, cowVars, procVars, groupVars, sigVars, copyVars,
                   vmVars, taskVars, strVars, mallocVars>>

\* The groups change, as in the process group model: Process::fork,
\* Process::set_pgid and Process::exit.
TtyForkOp(p) ==
    /\ ~links[p].zombie
    /\ Cardinality(DOMAIN links) < MaxProcs
    /\ links' = GroupFork(links, p)
    /\ ttylast' = TtyOther
    /\ UNCHANGED <<tty, tsig, glast, memVars, cowVars, procVars, sigVars, copyVars,
                   vmVars, taskVars, strVars, mallocVars>>

TtySetPgidOp(p, pgid) ==
    /\ ~links[p].zombie
    /\ links' = set_pgid(links, p, pgid)
    /\ ttylast' = TtyOther
    /\ UNCHANGED <<tty, tsig, glast, memVars, cowVars, procVars, sigVars, copyVars,
                   vmVars, taskVars, strVars, mallocVars>>

TtyExitOp(p) ==
    /\ p # INIT_PID
    /\ ~links[p].zombie
    /\ links' = [links EXCEPT ![p].zombie = TRUE]
    /\ ttylast' = TtyOther
    /\ UNCHANGED <<tty, tsig, glast, memVars, cowVars, procVars, sigVars, copyVars,
                   vmVars, taskVars, strVars, mallocVars>>

\* The signals a process blocks and ignores are set.
TtySigOp(p, blocked, ignored) ==
    /\ ~links[p].zombie
    /\ tsig' = [tsig EXCEPT ![p] = [sigmask |-> blocked, ignored |-> ignored]]
    /\ ttylast' = TtyOther
    /\ UNCHANGED <<tty, memVars, cowVars, procVars, groupVars, sigVars, copyVars,
                   vmVars, taskVars, strVars, mallocVars>>

\* The signals of the TTY: a process blocks both, ignores both, or neither.
TtySignals == {"SIGTTIN", "SIGTTOU"}
TtyMasks == {{}, TtySignals}

NextTty ==
    \/ \E p \in DOMAIN links : TtyForkOp(p)
    \/ \E p \in DOMAIN links, pgid \in DOMAIN links : TtySetPgidOp(p, pgid)
    \/ \E p \in DOMAIN links : TtyExitOp(p)
    \/ \E p \in DOMAIN links : TtyReadOp(p)
    \/ \E p \in DOMAIN links : TtyWriteOp(p)
    \/ \E p \in DOMAIN links, tostop \in BOOLEAN : TtySetTermiosOp(p, tostop)
    \/ \E p \in DOMAIN links, pgid \in DOMAIN links : TtySetPgrpOp(p, pgid)
    \/ \E p \in DOMAIN links, blocked \in TtyMasks, ignored \in TtyMasks :
          (blocked = {} \/ ignored = {}) /\ TtySigOp(p, blocked, ignored)

SpecTty == Init /\ [][NextTty]_vars

\* ------------------------------------------------------------- properties

\* The pages of the allocation window.
WindowPageAddrs == {ALLOC_BEGIN + i * PAGE_SIZE : i \in 0..(WindowPages - 1)}

GapCovers(g, p) == g.begin <= p /\ p < GapEnd(g)
MappingCovers(m, p) == m.addr <= p /\ p < MappingEnd(m)

\* Number of gaps and of mappings of state `s` covering page `p`.
GapsOn(s, p) == Cardinality({k \in DOMAIN s.gaps : GapCovers(s.gaps[k], p)})
MappingsOn(s, p) == Cardinality({k \in DOMAIN s.mappings : MappingCovers(s.mappings[k], p)})

\* C1: at every transaction boundary the gaps and the mappings are pairwise
\* disjoint (and together cover exactly [ALLOC_BEGIN, COPY_BUFFER)): no page
\* belongs to two gaps, to two mappings, or to a gap and a mapping.
C1_Disjoint ==
    \A p \in PageAddrs : GapsOn(Cur, p) + MappingsOn(Cur, p) <= 1

\* C2: at every transaction boundary no two gaps are adjacent or overlapping.
C2_NoAdjacentGaps ==
    \A a, b \in DOMAIN gaps :
        a # b => /\ GapEnd(gaps[a]) # gaps[b].begin
                 /\ (GapEnd(gaps[a]) <= gaps[b].begin \/ GapEnd(gaps[b]) <= gaps[a].begin)

\* C3: a Fixed map succeeds only if addr is page-aligned and
\* addr + size * PAGE_SIZE <= COPY_BUFFER, so that no mapping covers the
\* COPY_BUFFER page or a page above it.
C3_FixedBelowCopyBuffer ==
    /\ (last.op = "map" /\ last.kind = "Fixed" /\ last.ok)
          => /\ is_aligned_to(last.addr, PAGE_SIZE)
             /\ last.addr + last.size * PAGE_SIZE <= COPY_BUFFER
    /\ \A k \in DOMAIN mappings : MappingEnd(mappings[k]) <= COPY_BUFFER

InSingleGap(gs, addr, n) ==
    \E k \in DOMAIN gs :
        gs[k].begin <= addr /\ addr + n * PAGE_SIZE <= GapEnd(gs[k])

C5Restored(r, pre) ==
    r.ok /\ r.st.gaps = pre.gaps /\ r.st.mappings = pre.mappings

\* C5: after a map of n pages that returned A, placed inside a single gap,
\* unmap(A, n, brk = false) restores the gaps and the mappings of before the
\* map.
C5_MapUnmapRestores ==
    (last.op = "map" /\ last.ok
        /\ InSingleGap(last.pre.gaps, last.ret, last.size))
        => \A hi \in HiChoices :
              C5Restored(Unmap(Cur, last.ret, last.size, FALSE, 0, hi), last.pre)

\* The ranges of the mappings of state `s`.
MappingRanges(s) ==
    {<<s.mappings[k].addr, s.mappings[k].size>> : k \in DOMAIN s.mappings}

C6After3(s1, s2, s3, a) ==
    (s1.ok /\ s2.ok /\ s3.ok)
        => MappingRanges(s3.st) = MappingRanges(s1.st) /\ s3.st.brk = a
C6After2(s1, s2, a, hi) == C6After3(s1, s2, set_brk(s2.st, a, 0, hi), a)
C6After1(s1, a, b, hi) == C6After2(s1, set_brk(s1.st, b, 0, hi), a, hi)

\* C6: for brk_init <= a <= b <= COPY_BUFFER, after set_brk(a); set_brk(b);
\* set_brk(a) the mappings are those of after the first set_brk(a) and the
\* break is a.
C6_BrkRoundTrip ==
    \A a, b \in BrkAddrs :
        (brk_init <= a /\ a <= b /\ b <= COPY_BUFFER)
            => \A hi \in HiChoices : C6After1(set_brk(Cur, a, 0, hi), a, b, hi)

\* Page addresses of the model, the pages a set_brk can reach included.
BrkPages == {p * PAGE_SIZE : p \in 0..(WindowPages + 2)}
\* The pages [align_up(lo), align_up(hi)).
BrkRange(lo, hi) ==
    {p \in BrkPages : align_to(lo, PAGE_SIZE) <= p /\ p < align_to(hi, PAGE_SIZE)}
\* The pages state `s` has a mapping on.
MappedPages(s) == UNION {MappingPages(s.mappings[k]) : k \in DOMAIN s.mappings}
\* Whether a readable, writable, executable anonymous mapping covers `p`.
BrkMapped(s, p) ==
    \E k \in DOMAIN s.mappings :
        /\ MappingCovers(s.mappings[k], p)
        /\ s.mappings[k].prot = PROT_READ + PROT_WRITE + PROT_EXEC
        /\ HasBit(s.mappings[k].flags, MAP_ANONYMOUS)

C7Reference(pre, addr) ==
    IF addr < pre.brk_init \/ addr > COPY_BUFFER
    THEN ~last.ok /\ Cur = pre
    ELSE IF addr >= pre.brk
    THEN /\ last.ok /\ ~halted /\ brk = addr
         /\ MappedPages(Cur) = MappedPages(pre) \cup BrkRange(pre.brk, addr)
         /\ \A p \in BrkRange(pre.brk, addr) : BrkMapped(Cur, p)
    ELSE /\ last.ok /\ brk = addr
         /\ MappedPages(Cur) = MappedPages(pre) \ BrkRange(addr, pre.brk)

\* C7: set_brk(addr), for every addr aligned or not and no allocation
\* failing: fails leaving the state unchanged if addr < brk_init or
\* addr > COPY_BUFFER; otherwise, growing, succeeds without underflow, maps
\* the pages [align_up(brk), align_up(addr)) readable, writable, executable
\* and anonymous and sets brk = addr; shrinking, unmaps the pages
\* [align_up(addr), align_up(brk)) and sets brk = addr.
C7_SetBrkReference ==
    (last.op = "set_brk" /\ ~last.oom) => C7Reference(last.pre, last.addr)

\* The range returned lies outside the pages of [a, b) that the shrink from
\* b to a releases, those from the first page boundary at or above a.
C8Outside(r, size, a, b) ==
    r.ok => (r.ret + size * PAGE_SIZE <= align_to(a, PAGE_SIZE) \/ r.ret >= b)

C8Shrunk(s2, a, b, hi) ==
    (s2.ok /\ s2.st.brk = a)
        => \A c \in {NoConstraint} \cup {Hint(h) : h \in HintAddrs}, size \in Sizes :
              C8Outside(Map(s2.st, c, size, PROT_READ, UserFlags, 0, hi), size, a, b)
C8Grown(s1, a, b, hi) ==
    (s1.ok /\ s1.st.brk = b) => C8Shrunk(set_brk(s1.st, a, 0, hi), a, b, hi)

\* C8: after set_brk has grown the break to b and then shrunk it to a, no
\* map with a None or Hint constraint returns a range intersecting the pages
\* released in [a, b).
C8_ShrunkBrkNotReused ==
    \A a, b \in BrkAddrs :
        (brk <= a /\ a < b)
            => \A hi \in HiChoices : C8Grown(set_brk(Cur, b, 0, hi), a, b, hi)

\* The populated pages of state `s`.
Populated(s) ==
    UNION {{s.mappings[k].addr + (i - 1) * PAGE_SIZE :
               i \in {j \in 1..s.mappings[k].size : s.mappings[k].pages[j]}} :
           k \in DOMAIN s.mappings}

MappingsAt(s, addr) ==
    {k \in DOMAIN s.mappings :
        s.mappings[k].addr <= addr /\ addr < MappingEnd(s.mappings[k])}
\* Whether mapping `m` refuses a fault of code `code`.
Refuses(m, code) ==
    \/ HasBit(code, PAGE_FAULT_WRITE) /\ ~HasBit(m.prot, PROT_WRITE)
    \/ HasBit(code, PAGE_FAULT_INSTRUCTION) /\ ~HasBit(m.prot, PROT_EXEC)
\* Whether the page of `addr` has a frame in a mapping of state `s`.
PopulatedAt(s, addr) == \E p \in Populated(s) : p <= addr /\ addr < p + PAGE_SIZE

C10Reference(pre, addr, code) ==
    /\ MappingsAt(pre, addr) = {} => ~last.ok
    /\ (\A k \in MappingsAt(pre, addr) : Refuses(pre.mappings[k], code)) => ~last.ok
    /\ (MappingsAt(pre, addr) # {}
          /\ \A k \in MappingsAt(pre, addr) : ~Refuses(pre.mappings[k], code))
          => last.ok
    /\ ~last.ok => Cur = pre
    /\ last.ok => /\ PopulatedAt(Cur, addr)
                  /\ gaps = pre.gaps
                  /\ MappingRanges(Cur) = MappingRanges(pre)

C11_ForkIsolation ==
    \A p \in DOMAIN spaces :
        \A pg \in spaces[p].vmem \cap DOMAIN frames[p] :
            content[frames[p][pg]] = Logical(p, pg)

\* After the fork one process has written a page and both processes read it
\* through their page tables, with different contents.
C11_Witness ==
    /\ "child" \in DOMAIN spaces
    /\ \E pg \in spaces["parent"].vmem \cap spaces["child"].vmem :
          Logical("parent", pg) # Logical("child", pg)

\* The fields of a memory space other than its page table.
SpaceFields(s) == <<s.gaps, s.mappings, s.vmem_usage, s.brk_init, s.brk>>

\* C12: MemSpace::fork leaves the parent's gaps, mappings, vmem_usage,
\* brk_init and brk as they were, gives the child equal copies of them with
\* an empty page table, and leaves no page of a mapping of the parent
\* translated by the parent's page table.
C12_ForkFrame ==
    (cowlast.op = "fork" /\ cowlast.ok) =>
        /\ SpaceFields(spaces["parent"]) = SpaceFields(cowlast.pre)
        /\ SpaceFields(spaces["child"]) = SpaceFields(cowlast.pre)
        /\ spaces["child"].vmem = {}
        /\ spaces["parent"].vmem \cap UserPages(spaces["parent"]) = {}

\* A fork has succeeded in a parent whose page table translated pages of its
\* mappings.
C12_Witness ==
    /\ cowlast.op = "fork"
    /\ cowlast.ok
    /\ cowlast.pre.vmem \cap UserPages(cowlast.pre) # {}
    /\ cowlast.pre.vmem_usage > 0

\* The step is exit on process `p`, or set_state(Zombie) on it.
ExitStep(p) == plast'.op = "exit" /\ plast'.pid = p
ToZombieStep(p) ==
    \/ ExitStep(p)
    \/ plast'.op = "set_state" /\ plast'.pid = p /\ plast'.new_state = "Zombie"

\* C13: set_state(Zombie), or exit, on a process other than init that is
\* Running, Sleeping or Stopped moves it to Zombie.
C13_ExitToZombie ==
    [][\A p \in DOMAIN procs :
          (p # INIT_PID /\ ToZombieStep(p)
              /\ procs[p].state \in {"Running", "Sleeping", "Stopped"})
          => procs'[p].state = "Zombie"]_vars

\* The transitions of the state machine: Running <-> Sleeping,
\* Running -> Stopped -> Running, and any live state -> Zombie.
Listed(old_state, new_state) ==
    \/ old_state # "Zombie" /\ new_state = "Zombie"
    \/ <<old_state, new_state>> \in
           {<<"Running", "Sleeping">>, <<"Sleeping", "Running">>,
            <<"Running", "Stopped">>, <<"Stopped", "Running">>}

\* C14: a set_state whose transition is not one of the state machine's
\* leaves the process table and the count of running processes as they were
\* (no state change, no SIGCHLD); and a Zombie stays a Zombie.
C14_InvalidIsNoOp ==
    [][\A p \in DOMAIN procs :
          /\ (plast'.op = "set_state" /\ plast'.pid = p
                 /\ ~Listed(procs[p].state, plast'.new_state))
             => (procs' = procs /\ running' = running)
          /\ procs[p].state = "Zombie" => procs'[p].state = "Zombie"]_vars

\* C15: the scheduler's count of running processes is the number of
\* processes in state Running.
C15_RunningCount ==
    running = Cardinality({p \in DOMAIN procs : procs[p].state = "Running"})

\* C16: in a kernel that has not panicked, a Zombie has neither a memory
\* space nor a file descriptors table.
C16_ZombieReleased ==
    ~panicked =>
        \A p \in DOMAIN procs :
            procs[p].state = "Zombie" =>
                (~procs[p].mem_space /\ ~procs[p].file_descriptors)

\* C17: when the exit of a process other than init makes it a Zombie, its
\* list of children is empty afterwards, and each of its children has init
\* as parent and is once in the children of init.
C17_Reparented ==
    [][\A p \in DOMAIN procs :
          (p # INIT_PID /\ ExitStep(p) /\ procs'[p].state = "Zombie")
          => /\ procs'[p].children = <<>>
             /\ \A i \in DOMAIN procs[p].children :
                   /\ procs'[procs[p].children[i]].parent = INIT_PID
                   /\ Cardinality({j \in DOMAIN procs'[INIT_PID].children :
                          procs'[INIT_PID].children[j] = procs[p].children[i]}) = 1]_vars

\* A process other than init, with a child, has exited and is a Zombie; init
\* has another child already.
C17_Witness ==
    /\ plast.op = "exit"
    /\ plast.pid # INIT_PID
    /\ plast.children # <<>>
    /\ procs[plast.pid].state = "Zombie"
    /\ Len(procs[INIT_PID].children) > 1

\* C18: when a process other than init that is not a Zombie, with a parent
\* that does not block SIGCHLD, calls exit, SIGCHLD is pending on the parent
\* afterwards, whatever the state of the process was.
C18_ExitSignalsParent ==
    [][\A p \in DOMAIN procs :
          (p # INIT_PID /\ ExitStep(p) /\ procs[p].state # "Zombie"
              /\ procs[p].parent # 0 /\ ~procs[procs[p].parent].sigmask)
          => procs'[procs[p].parent].sigpending]_vars

\* C19: vfork_done of a process is false when the process is created and
\* becomes true only by its exit or its vfork_wake; after the exit it is
\* true, and a parent that was Sleeping is Running.
C19_VforkDone ==
    [][\A p \in DOMAIN procs' :
          /\ p \notin DOMAIN procs => ~procs'[p].vfork_done
          /\ (p \in DOMAIN procs /\ procs'[p].vfork_done # procs[p].vfork_done)
             => (plast'.op \in {"exit", "vfork_wake"} /\ plast'.pid = p
                    /\ procs'[p].vfork_done)
          /\ (p \in DOMAIN procs /\ p # INIT_PID /\ ExitStep(p))
             => /\ procs'[p].vfork_done
                /\ procs[procs[p].parent].state = "Sleeping"
                   => procs'[procs[p].parent].state = "Running"]_vars

\* A process whose vfork_done was false has exited while its parent was
\* Sleeping: vfork_done is true and the parent is Running.
C19_Witness ==
    /\ plast.op = "exit"
    /\ plast.was = "Sleeping"
    /\ procs[plast.pid].vfork_done
    /\ procs[plast.pid].state = "Zombie"
    /\ procs[procs[plast.pid].parent].state = "Running"

\* C20: an attempt to make init a Zombie ends in a kernel panic, and init is
\* a Zombie in no state of a kernel that has not panicked.
C20_InitNeverZombie ==
    /\ [](~panicked => procs[INIT_PID].state # "Zombie")
    /\ [][ToZombieStep(INIT_PID) => panicked']_vars

\* C21: for processes P and L other than P, P is in the process group list
\* of L if and only if L is the group leader of P; so P is in at most one
\* list.
C21_GroupMembership ==
    \A P \in DOMAIN links, L \in DOMAIN links :
        L # P =>
            ((\E i \in DOMAIN links[L].process_group : links[L].process_group[i] = P)
                <=> links[P].group_leader = L)

\* The process the getpgid of the last operation is about.
GetpgidTarget == IF glast.pid = 0 THEN glast.caller ELSE glast.pid

\* C22: getpgid, with pid = 0 for the caller or with the PID of a process,
\* returns the PID of the group leader of that process, its own PID when it
\* is its own leader (as Process::get_pgid does); an unknown PID gives ESRCH.
C22_Getpgid ==
    glast.op = "getpgid" =>
        IF GetpgidTarget \notin DOMAIN links THEN ~glast.res.ok
        ELSE /\ glast.res.ok
             /\ glast.res.val = get_pgid(links, GetpgidTarget)
             /\ get_pgid(links, GetpgidTarget) =
                    (IF links[GetpgidTarget].group_leader = 0 THEN GetpgidTarget
                     ELSE links[GetpgidTarget].group_leader)


\* C23: kill(sig) sets the pending bit of sig and changes no other pending
\* bit and no bit of the mask; when sig is catchable and blocked, the signal
\* is discarded and the pending set is left as it was.
C23_KillFrame ==
    [][slast'.op = "kill" =>
        /\ sigmask' = sigmask
        /\ \A s \in Signals \ {slast'.sig} : (s \in sigpending') <=> (s \in sigpending)
        /\ IF can_catch(slast'.sig) /\ slast'.sig \in sigmask
           THEN sigpending' = sigpending
           ELSE slast'.sig \in sigpending']_vars

\* A blocked catchable signal has been discarded by kill while another
\* signal is pending.
C23_Witness ==
    /\ slast.op = "kill"
    /\ can_catch(slast.sig)
    /\ slast.sig \in sigmask
    /\ slast.sig \notin sigpending
    /\ sigpending # {}

\* The pending signals that are uncatchable or not blocked.
Deliverable == {s \in sigpending : ~can_catch(s) \/ s \notin sigmask}

\* C24: next_signal returns the lowest-numbered pending signal that is
\* uncatchable or not blocked, and None when there is none; with peek = false
\* it clears the bit of that signal and no other, with peek = true it leaves
\* the pending set unchanged; a catchable blocked signal is never returned.
C24_NextSignal ==
    [][slast'.op \in {"next_signal", "peek"} =>
        /\ slast'.sig = (IF Deliverable = {} THEN 0 ELSE SetMin(Deliverable))
        /\ sigpending' = (IF slast'.op = "peek" THEN sigpending
                          ELSE sigpending \ {slast'.sig})
        /\ sigmask' = sigmask
        /\ ~(slast'.sig # 0 /\ can_catch(slast'.sig) /\ slast'.sig \in sigmask)]_vars

\* next_signal has returned and cleared a signal while a lower-numbered
\* blocked catchable signal stays pending.
C24_Witness ==
    /\ slast.op = "next_signal"
    /\ slast.sig # 0
    /\ \E s \in sigpending : s < slast.sig /\ can_catch(s) /\ s \in sigmask

\* C25: yield_current does nothing on a return to a ring below 3; on a
\* return to ring 3 it calls the scheduler without delivering a signal when
\* the process is not Running; otherwise it delivers at most one pending
\* signal and calls the scheduler exactly when the handler left the process
\* in a state other than Running.
C25_Yield ==
    [][slast'.op = "yield" =>
        /\ slast'.ring < 3 =>
              /\ sigpending' = sigpending /\ pstate' = pstate
              /\ slast'.sig = 0 /\ ~slast'.tick
        /\ slast'.ring = 3 /\ pstate # "Running" =>
              /\ sigpending' = sigpending /\ pstate' = pstate
              /\ slast'.sig = 0 /\ slast'.tick
        /\ slast'.ring = 3 /\ pstate = "Running" =>
              /\ sigpending' = sigpending \ {slast'.sig}
              /\ slast'.sig # 0 => slast'.sig \in Deliverable
              /\ slast'.sig = 0 => pstate' = pstate /\ Deliverable = {}
              /\ slast'.tick <=> pstate' # "Running"]_vars

\* One signal has been delivered, its handler stopped the process, the
\* scheduler was called and another signal is still pending.
C25_Witness ==
    /\ slast.op = "yield"
    /\ slast.sig # 0
    /\ slast.tick
    /\ pstate = "Stopped"
    /\ Deliverable # {}

\* C26: a signal that is uncatchable or not blocked, posted with kill to a
\* Sleeping process, wakes the process.
C26_KillWakes ==
    [][(/\ slast'.op = "kill"
        /\ pstate = "Sleeping"
        /\ (~can_catch(slast'.sig) \/ slast'.sig \notin sigmask))
       => pstate' = "Running"]_vars

\* The program counter of the last fault lies in [raw_copy, copy_fault).
InRawCopy(pc) == RAW_COPY <= pc /\ pc < COPY_FAULT

C28_BoundedAccess ==
    /\ \A r \in clast.touched :
          /\ r.addr >= PAGE_SIZE
          /\ r.addr + r.n <= COPY_BUFFER
          /\ r.addr + r.n <= USIZE_MAX
    /\ clast.res = "EFAULT" => clast.touched = {}
    /\ clast.op \in {"copy", "string"} /\ clast.ptr = 0 =>
          clast.res = "None" /\ clast.touched = {}
    /\ clast.op = "array" /\ clast.ptr = 0 =>
          clast.res = "EFAULT" /\ clast.touched = {}

\* C29: SMAP is disabled exactly while a raw copy is executing: it is enabled
\* when every copy has returned, and disabled as long as a raw copy has not
\* returned, also after a copy made by an interrupting handler.
C29_SmapScoped == smap <=> (inflight = <<>>)


\* The calls made on page `v`, and the translation the last of them leaves.
CallsOn(v) == {i \in DOMAIN hist : hist[i].virt = v}
Expected(v) ==
    IF CallsOn(v) = {} \/ hist[SetMax(CallsOn(v))].op = "unmap" THEN << >>
    ELSE <<hist[SetMax(CallsOn(v))].phys>>

\* C30: after any sequence of map and unmap on a fresh context, translate(v)
\* is the physical address of the most recent map of page v if v has not
\* been unmapped since, and None otherwise.
C30_Translate == \A v \in VirtPages : translate(table, v) = Expected(v)

\* Some page has been mapped twice to different physical pages, another page
\* has been mapped and then unmapped, and a third one was never mapped.
C30_Witness ==
    /\ \E i, j \in DOMAIN hist :
          /\ i < j /\ hist[i].virt = hist[j].virt
          /\ hist[i].op = "map" /\ hist[j].op = "map" /\ hist[i].phys # hist[j].phys
          /\ translate(table, hist[j].virt) = <<hist[j].phys>>
    /\ \E i, j \in DOMAIN hist :
          /\ i < j /\ hist[i].virt = hist[j].virt
          /\ hist[i].op = "map" /\ hist[j].op = "unmap"
          /\ translate(table, hist[j].virt) = << >>
    /\ \E v \in VirtPages : CallsOn(v) = {}


\* C39: immediately after fork, the child is in the process group of its
\* parent: get_pgid of the child equals get_pgid of the parent, also when the
\* parent is the leader of its own group.
C39_ForkSameGroup ==
    [][glast'.op = "fork" =>
        get_pgid(links', Cardinality(DOMAIN links')) = get_pgid(links', glast'.caller)]_vars

\* C40: the exit or the vfork_wake of a child leaves a Stopped parent
\* Stopped.
C40_StoppedParentStays ==
    [][(/\ plast'.op \in {"exit", "vfork_wake"}
        /\ plast'.pid \in DOMAIN procs
        /\ ParentState(plast'.pid) = "Stopped")
       => procs'[procs[plast'.pid].parent].state = "Stopped"]_vars


\* The pages of the range of the last unmap, the pages covered by a set of
\* mappings, and the mappings of `ms` that lie inside mapping `m`.
UnmapRange == {last.addr + i * PAGE_SIZE : i \in 0..(last.size - 1)}
PagesOf(ms) == UNION {MappingPages(ms[k]) : k \in DOMAIN ms}
Residuals(ms, m) == {k \in DOMAIN ms : MappingPages(ms[k]) \subseteq MappingPages(m)}

\* C33: a successful unmap(addr, n, brk = false) removes exactly the pages of
\* the range from the mappings: a mapping outside the range is untouched, a
\* mapping partly covered is replaced by at most two residual mappings that
\* hold exactly its pages outside the range, every removed page lies in a
\* gap, and a range that holds no mapping changes nothing.
C33_UnmapExact ==
    (last.op = "unmap" /\ last.arg = 0 /\ last.ok /\ ~last.oom) =>
        /\ PagesOf(mappings) = PagesOf(last.pre.mappings) \ UnmapRange
        /\ \A k \in DOMAIN last.pre.mappings :
              /\ MappingPages(last.pre.mappings[k]) \cap UnmapRange = {} =>
                    k \in DOMAIN mappings /\ mappings[k] = last.pre.mappings[k]
              /\ Cardinality(Residuals(mappings, last.pre.mappings[k])) <= 2
              /\ \A j \in Residuals(mappings, last.pre.mappings[k]) :
                    mappings[j] = SubMapping(last.pre.mappings[k],
                                             (j - k) \div PAGE_SIZE, mappings[j].size)
        /\ \A pg \in UnmapRange \cap PagesOf(last.pre.mappings) :
              Containing(gaps, pg) # {}
        /\ UnmapRange \cap PagesOf(last.pre.mappings) = {} =>
              mappings = last.pre.mappings /\ gaps = last.pre.gaps


\* The object `new` of the child is the object `old` of its parent when
\* `share`, and otherwise an object no process had, with the same content.
SharedOrCopied(old, new, share) ==
    IF share THEN new = old
    ELSE /\ new \notin DOMAIN heap
         /\ new \in DOMAIN heap'
         /\ heap'[new] = heap[old]

\* C32: after a successful fork the PID of the child is the PID of no process
\* that existed, its TID is its PID, it is Running with no pending signal,
\* the mask of its parent and exit status 0, its parent is the forking
\* process, which has it in its children; its memory space, file descriptor
\* table and handler table are those of the parent exactly when the share
\* option is set, and independent copies otherwise.
C32_ForkChild ==
    [][tlast'.op = "fork" =>
        /\ tlast'.child \notin DOMAIN tasks
        /\ DOMAIN tasks' = DOMAIN tasks \cup {tlast'.child}
        /\ tasks'[tlast'.child].tid = tlast'.child
        /\ tasks'[tlast'.child].state = "Running"
        /\ tasks'[tlast'.child].sigpending = {}
        /\ tasks'[tlast'.child].sigmask = tasks[tlast'.pid].sigmask
        /\ tasks'[tlast'.child].exit_status = 0
        /\ tasks'[tlast'.child].parent = tlast'.pid
        /\ \E i \in DOMAIN tasks'[tlast'.pid].children :
              tasks'[tlast'.pid].children[i] = tlast'.child
        /\ SharedOrCopied(tasks[tlast'.pid].mem_space,
                          tasks'[tlast'.child].mem_space, tlast'.share_memory)
        /\ SharedOrCopied(tasks[tlast'.pid].file_descriptors,
                          tasks'[tlast'.child].file_descriptors, tlast'.share_fd)
        /\ SharedOrCopied(tasks[tlast'.pid].handlers,
                          tasks'[tlast'.child].handlers, tlast'.share_sighand)
        /\ \A id \in DOMAIN heap : heap'[id] = heap[id]]_vars

\* A process that blocks SIGFPE, has SIGFPE pending and has written to its
\* memory has forked a child that shares its file descriptors only, after
\* another child of its own.
C32_Witness ==
    /\ tlast.op = "fork"
    /\ tlast.share_fd /\ ~tlast.share_memory /\ ~tlast.share_sighand
    /\ tasks[tlast.pid].sigmask = {SIGFPE}
    /\ tasks[tlast.pid].sigpending # {}
    /\ tasks[tlast.child].sigpending = {}
    /\ heap[tasks[tlast.child].mem_space] = 1
    /\ tasks[tlast.child].mem_space # tasks[tlast.pid].mem_space
    /\ tasks[tlast.child].file_descriptors = tasks[tlast.pid].file_descriptors
    /\ Len(tasks[tlast.pid].children) = 2


\* The addresses from the pointer of the string on that hold a NUL, and
\* whether every byte from the pointer to the first NUL can be read.
NulsAhead == {a \in str.nuls : a >= str.ptr}
Readable(a) == PageBase(a) \in str.mapped /\ PAGE_SIZE <= a /\ a < COPY_BUFFER
Terminated ==
    /\ NulsAhead # {}
    /\ Readable(str.ptr)
    /\ \A pg \in StrPages :
          (PageBase(str.ptr) <= pg /\ pg <= SetMin(NulsAhead)) => Readable(pg)

C31_BackgroundRead ==
    [][ttylast'.op = "read" =>
        IF get_pgid(links, ttylast'.pid) = tty.pgrp
        THEN ttylast'.r = TtyRes("Ok", {})
        ELSE IF \/ is_in_orphan_process_group(links, ttylast'.pid)
                \/ "SIGTTIN" \in tsig[ttylast'.pid].sigmask
                \/ "SIGTTIN" \in tsig[ttylast'.pid].ignored
        THEN ttylast'.r = TtyRes("EIO", {})
        ELSE ttylast'.pid \in ttylast'.r.killed]_vars

\* C35: a write, a TCSETS, TCSETSW or TCSETSF, or a TIOCSPGRP by a process
\* of the foreground group of the TTY gives no SIGTTOU and no EIO, whatever
\* TOSTOP is.
C35_ForegroundWrite ==
    [][(/\ ttylast'.op \in {"write", "tcsets", "tiocspgrp"}
        /\ get_pgid(links, ttylast'.pid) = tty.pgrp)
       => ttylast'.r = TtyRes("Ok", {})]_vars


\* The bytes of the block that the chunks of a list cover, headers included.
RECURSIVE Tiled(_)
Tiled(cs) == IF cs = <<>> THEN 0 ELSE CHUNK_HEADER + Head(cs).size + Tiled(Tail(cs))

\* C36: Chunk::split(size) on a chunk of at least size + header +
\* FREE_CHUNK_MIN bytes leaves the chunk used with exactly `size` bytes and
\* links after it a free chunk of the remainder minus one header; on a
\* smaller chunk it only marks the chunk as used; and at every step the
\* chunks of the block cover the same bytes and each holds at least
\* FREE_CHUNK_MIN bytes.
C36_Split ==
    [][/\ mlast'.op = "split" =>
             block' = IF block[mlast'.i].size >= mlast'.n + CHUNK_HEADER + FREE_CHUNK_MIN
                      THEN SubSeq(block, 1, mlast'.i - 1)
                           \o <<Chunk(CHUNK_FLAG_USED, mlast'.n),
                                Chunk(0, block[mlast'.i].size - mlast'.n - CHUNK_HEADER)>>
                           \o SubSeq(block, mlast'.i + 1, Len(block))
                      ELSE [block EXCEPT ![mlast'.i].flags = CHUNK_FLAG_USED]
       /\ block # <<>> => Tiled(block') = Tiled(block)
       /\ \A j \in DOMAIN block' : block'[j].size >= FREE_CHUNK_MIN]_vars

\* The chunk of the list that covers the offset `off` of the block.
RECURSIVE Covering(_, _)
Covering(cs, off) ==
    IF Len(cs) = 1 \/ off < CHUNK_HEADER + Head(cs).size THEN Head(cs)
    ELSE Covering(Tail(cs), off - (CHUNK_HEADER + Head(cs).size))

\* C37: after Chunk::coalesce on a chunk, the chunk that covers its place is
\* free, no two neighbours of the list are both free, and the chunks cover
\* the same bytes as before.
C37_Coalesce ==
    [][mlast'.op = "coalesce" =>
        /\ Covering(block', Tiled(SubSeq(block, 1, mlast'.i - 1))).flags % 2 = 0
        /\ \A j \in 1..(Len(block') - 1) :
              block'[j].flags % 2 # 0 \/ block'[j + 1].flags % 2 # 0
        /\ Tiled(block') = Tiled(block)]_vars

\* C38: malloc::alloc(n), the buddy allocator having memory, returns a
\* pointer.
C38_Alloc ==
    [][(mlast'.op = "alloc" /\ ~mlast'.res[1]) => mlast'.res[2] # <<>>]_vars

====
